---- MODULE Spec2Model ----
(***************************************************************************)
(* F1 analytics: the relational store (database_setup.py), the writers     *)
(* that fill it (create_sample_data.py, ergast_api.py) and the read-only   *)
(* analytics engine (src/data_processing/analytics.py).                    *)
(*                                                                         *)
(* A table is a set of rows (records); a query result (a pandas DataFrame) *)
(* is a sequence of rows.  Columns that no query below reads (url, dob,    *)
(* grid, laps, fastest_lap, ...) are left out of the rows.  Points are     *)
(* whole numbers; an average or a rate is kept as an exact fraction        *)
(* [num, den], so float rounding is not modelled.                          *)
(***************************************************************************)
EXTENDS Integers, Sequences, FiniteSets, TLC

VARIABLES circuits, drivers, constructors, races, race_results,
          qualifying_results, seasons, enhanced, ret,
          files, tables, math_functions, ergast, analytics, calls, leaked

vars == <<circuits, drivers, constructors, races, race_results,
          qualifying_results, seasons, enhanced, ret,
          files, tables, math_functions, ergast, analytics, calls, leaked>>

\* the rows of the store: the tables of database_setup.py that the writers
\* fill, and enhanced, the three tables of the FastF1 collector
store == <<circuits, drivers, constructors, races, race_results,
           qualifying_results, seasons, enhanced>>

\* what surrounds the rows: the directories that hold a store file
\* (<dir>/data/f1_database.db), the tables of the project's store file,
\* whether the SQLite library has the math functions (SQRT), and the run of
\* the Ergast collector (ergast_api.main) that is in progress
env == <<files, tables, math_functions, ergast>>

\* the analytics engine: the F1Analytics instance, the call each session has
\* in progress, and the connections that calls left open when they ended
engine == <<analytics, calls, leaked>>

\* SQL NULL / pandas NaN in a numeric column (no rank and no count is negative)
NULL == -1

\* SQL comparisons: a comparison with NULL is not true
SqlEq(a, b) == a # NULL /\ b # NULL /\ a = b
SqlLt(a, b) == a # NULL /\ b # NULL /\ a < b
SqlLe(a, b) == a # NULL /\ b # NULL /\ a <= b

(***************************************************************************)
(* The data the writers are fed with.  Reference data is a fixed           *)
(* catalogue, saved table by table; result rows are drawn field by field   *)
(* from the sets below.                                                    *)
(***************************************************************************)
\* largest points value of one result row
MaxPoints == 1

CircuitCatalog ==
    { [circuit_id |-> 1, name |-> "Bahrain International Circuit", country |-> "Bahrain"],
      [circuit_id |-> 2, name |-> "Jeddah Corniche Circuit", country |-> "Saudi Arabia"] }

DriverCatalog ==
    { [driver_id |-> 1, forename |-> "Max", surname |-> "Verstappen"],
      [driver_id |-> 2, forename |-> "Charles", surname |-> "Leclerc"] }

ConstructorCatalog ==
    { [constructor_id |-> 1, name |-> "Red Bull"],
      [constructor_id |-> 2, name |-> "Ferrari"] }

\* two races of one season and the opening race of the next one
RaceCatalog ==
    { [race_id |-> 1, year |-> 2023, round |-> 1, circuit_id |-> 1,
       name |-> "Bahrain Grand Prix", date |-> 20230305],
      [race_id |-> 2, year |-> 2023, round |-> 2, circuit_id |-> 2,
       name |-> "Saudi Arabian Grand Prix", date |-> 20230319],
      [race_id |-> 3, year |-> 2024, round |-> 1, circuit_id |-> 1,
       name |-> "Bahrain Grand Prix", date |-> 20240302] }

Years == {r.year : r \in RaceCatalog}
RaceIds == {r.race_id : r \in RaceCatalog}
DriverIds == {d.driver_id : d \in DriverCatalog}
\* a driver id no table knows
UnknownDriverIds == {9}

\* the constructor a driver races for: driver 1 changes team after the
\* first race, driver 2 stays
TeamOf(driver_id, race_id) ==
    IF driver_id = 1 /\ race_id # 1 THEN 2 ELSE 1

\* finishing positions: a win, a podium, a points finish, a finish outside
\* the points, and no classification
PositionValues == {NULL, 1, 2, 4, 11}
PointsValues == 0..MaxPoints

(***************************************************************************)
(* Arithmetic helpers                                                      *)
(***************************************************************************)
\* a / b as an exact fraction (pandas: float division, no error on b = 0)
Frac(a, b) == [num |-> a, den |-> b]

RECURSIVE SumPoints(_)
SumPoints(rows) ==
    IF rows = {} THEN 0
    ELSE LET x == CHOOSE y \in rows : TRUE
         IN x.points + SumPoints(rows \ {x})

RECURSIVE SumPosition(_)
SumPosition(rows) ==
    IF rows = {} THEN 0
    ELSE LET x == CHOOSE y \in rows : TRUE
         IN x.position + SumPosition(rows \ {x})

RECURSIVE SumSqPosition(_)
SumSqPosition(rows) ==
    IF rows = {} THEN 0
    ELSE LET x == CHOOSE y \in rows : TRUE
         IN x.position * x.position + SumSqPosition(rows \ {x})

Min(S) == CHOOSE x \in S : \A y \in S : x <= y
Max(S) == CHOOSE x \in S : \A y \in S : x >= y

\* the largest k in lo..hi with k * k <= x
RECURSIVE ISqrtIn(_, _, _)
ISqrtIn(lo, hi, x) ==
    IF lo >= hi THEN lo
    ELSE LET mid == (lo + hi + 1) \div 2
         IN IF mid * mid <= x THEN ISqrtIn(mid, hi, x) ELSE ISqrtIn(lo, mid - 1, x)

\* the integer square root (46340 * 46340 is the largest square of the
\* 32-bit integers TLC computes with)
ISqrt(x) == ISqrtIn(0, IF x < 46340 THEN x ELSE 46340, x)

\* every ordering of the rows S that is ascending in key (a function on S):
\* SQL leaves the order of rows with equal sort keys open
RECURSIVE SortsBy(_, _)
SortsBy(S, key) ==
    IF S = {} THEN {<<>>}
    ELSE UNION { { <<x>> \o t : t \in SortsBy(S \ {x}, key) } :
                 x \in {y \in S : \A z \in S : key[y] <= key[z]} }

(***************************************************************************)
(* Files.  A directory is named by its depth: 0 is the root directory,     *)
(* ProjectDir the project directory (the working directory of the scripts  *)
(* and the dashboard), ModuleDir the directory of analytics.py.  The path  *)
(* d stands for <d>/data/f1_database.db.                                   *)
(***************************************************************************)
ProjectDir == 1
ModuleDir == 3
Dirs == 0..ModuleDir

\* the tables the analytics queries and the writers name
TableNames ==
    {"circuits", "drivers", "constructors", "races", "race_results",
     "qualifying_results", "seasons"}

\* the tables save_enhanced_data creates when they do not exist
EnhancedTables == {"enhanced_lap_times", "enhanced_weather", "enhanced_race_results"}

\* no row in any table of the FastF1 collector
NoEnhanced == [t \in EnhancedTables |-> {}]

\* ergast_api.main is not running
NotCollecting == [pc |-> "idle"]

\* no F1Analytics instance
NoEngine == [db_path |-> NULL]

\* the dashboard sessions that call the engine
Sessions == {1, 2}

\* a session with no call in progress
Idle == [pc |-> "idle"]

(***************************************************************************)
(* The store after database_setup.py: every table exists and is empty;     *)
(* the dashboard has constructed F1Analytics('data/f1_database.db').       *)
(***************************************************************************)
NoCall == [op |-> "none"]

Init ==
    /\ circuits = {}
    /\ drivers = {}
    /\ constructors = {}
    /\ races = {}
    /\ race_results = {}
    /\ qualifying_results = {}
    /\ seasons = {}
    /\ enhanced = NoEnhanced
    /\ ret = NoCall
    /\ files = {ProjectDir}
    /\ tables = TableNames
    /\ math_functions = TRUE
    /\ ergast = NotCollecting
    /\ analytics = [db_path |-> ProjectDir]
    /\ calls = [s \in Sessions |-> Idle]
    /\ leaked = 0

(***************************************************************************)
(* Writers.  INSERT OR REPLACE removes the rows that clash with the new    *)
(* row on a PRIMARY KEY or UNIQUE constraint and inserts the new row.      *)
(* Writers do not run while an analytics call is in progress (ret holds    *)
(* the value of the call that is returning).                               *)
(***************************************************************************)
InsertOrReplaceCircuit(table, row) ==
    {x \in table : x.circuit_id # row.circuit_id} \cup {row}

InsertOrReplaceDriver(table, row) ==
    {x \in table : x.driver_id # row.driver_id} \cup {row}

InsertOrReplaceConstructor(table, row) ==
    {x \in table : x.constructor_id # row.constructor_id} \cup {row}

\* races: PRIMARY KEY race_id, UNIQUE(year, round)
InsertOrReplaceRace(table, row) ==
    {x \in table : /\ x.race_id # row.race_id
                   /\ ~(x.year = row.year /\ x.round = row.round)} \cup {row}

\* an insert that adds the row whatever the table holds
InsertResult(table, row) == table \cup {row}
\* race_results: UNIQUE(race_id, driver_id); result_id is generated
InsertOrReplaceResult(table, row) ==
    {x \in table : ~(x.race_id = row.race_id /\ x.driver_id = row.driver_id)}
        \cup {row}

RECURSIVE SaveAll(_, _, _)
\* executemany: the rows of a batch one after the other
SaveAll(table, batch, kind) ==
    IF batch = {} THEN table
    ELSE LET row == CHOOSE y \in batch : TRUE
             next == CASE kind = "circuits" -> InsertOrReplaceCircuit(table, row)
                       [] kind = "drivers" -> InsertOrReplaceDriver(table, row)
                       [] kind = "constructors" -> InsertOrReplaceConstructor(table, row)
                       [] kind = "races" -> InsertOrReplaceRace(table, row)
         IN SaveAll(next, batch \ {row}, kind)

SaveCircuits ==
    /\ ret = NoCall
    /\ circuits' = SaveAll(circuits, CircuitCatalog, "circuits")
    /\ UNCHANGED <<drivers, constructors, races, race_results, qualifying_results, seasons, enhanced, ret>>
    /\ UNCHANGED <<env, engine>>

SaveDrivers ==
    /\ ret = NoCall
    /\ drivers' = SaveAll(drivers, DriverCatalog, "drivers")
    /\ UNCHANGED <<circuits, constructors, races, race_results, qualifying_results, seasons, enhanced, ret>>
    /\ UNCHANGED <<env, engine>>

SaveConstructors ==
    /\ ret = NoCall
    /\ constructors' = SaveAll(constructors, ConstructorCatalog, "constructors")
    /\ UNCHANGED <<circuits, drivers, races, race_results, qualifying_results, seasons, enhanced, ret>>
    /\ UNCHANGED <<env, engine>>

\* the races of one season; every race refers to a saved circuit
SaveRaces(year) ==
    LET batch == {r \in RaceCatalog : r.year = year}
    IN /\ ret = NoCall
       /\ \A r \in batch : \E c \in circuits : c.circuit_id = r.circuit_id
       /\ races' = SaveAll(races, batch, "races")
       /\ UNCHANGED <<circuits, drivers, constructors, race_results,
                      qualifying_results, seasons, enhanced, ret>>
       /\ UNCHANGED <<env, engine>>

\* one result row of a fetched race.  The row refers to a saved race, driver
\* and constructor (FOREIGN KEY race_id, driver_id, constructor_id): the
\* analytics engine is specified over stores that keep these references
SaveResult(race_id, driver_id, position, points) ==
    LET row == [race_id |-> race_id, driver_id |-> driver_id,
                constructor_id |-> TeamOf(driver_id, race_id),
                position |-> position, points |-> points]
    IN /\ ret = NoCall
       /\ \E r \in races : r.race_id = race_id
       /\ \E d \in drivers : d.driver_id = driver_id
       /\ \E c \in constructors : c.constructor_id = row.constructor_id
       /\ race_results' = InsertOrReplaceResult(race_results, row)
       /\ UNCHANGED <<circuits, drivers, constructors, races, qualifying_results, seasons, enhanced, ret>>
       /\ UNCHANGED <<env, engine>>

\* the call in progress returns: the engine keeps nothing of its result
\* (no method assigns to self)
Return ==
    /\ ret # NoCall
    /\ ret' = NoCall
    /\ UNCHANGED <<store, env, engine>>

(***************************************************************************)
(* F1Analytics.get_driver_performance_metrics                              *)
(***************************************************************************)
\* DriverJoin with an inner join on qualifying_results added
DriverJoinQualified ==
    { j \in [rr : race_results, d : drivers, c : constructors] :
        /\ j.rr.driver_id = j.d.driver_id
        /\ j.rr.constructor_id = j.c.constructor_id
        /\ \E q \in qualifying_results : q.driver_id = j.d.driver_id
        /\ j.rr.position # NULL }

\* FROM race_results rr JOIN drivers d JOIN constructors c
\* WHERE rr.position IS NOT NULL
DriverJoin ==
    { j \in [rr : race_results, d : drivers, c : constructors] :
        /\ j.rr.driver_id = j.d.driver_id
        /\ j.rr.constructor_id = j.c.constructor_id
        /\ j.rr.position # NULL }

\* GROUP BY d.driver_id, d.forename, d.surname, d.code, d.nationality, c.name
DriverGroupKey(j) ==
    [driver_id |-> j.d.driver_id, forename |-> j.d.forename,
     surname |-> j.d.surname, constructor |-> j.c.name]

DriverGroups(joined) == {DriverGroupKey(j) : j \in joined}

\* the aggregates of one group (the SELECT list)
DriverAggregate(key, joined) ==
    LET rows == {j.rr : j \in {x \in joined : DriverGroupKey(x) = key}}
        n == Cardinality(rows)
    IN [driver_id |-> key.driver_id,
        driver_name |-> <<key.forename, key.surname>>,
        constructor |-> key.constructor,
        races_completed |-> n,
        total_points |-> SumPoints(rows),
        avg_points_per_race |-> Frac(SumPoints(rows), n),
        avg_position |-> Frac(SumPosition(rows), n),
        best_position |-> Min({x.position : x \in rows}),
        worst_position |-> Max({x.position : x \in rows}),
        wins |-> Cardinality({x \in rows : SqlEq(x.position, 1)}),
        podiums |-> Cardinality({x \in rows : SqlLe(x.position, 3)}),
        points_finishes |-> Cardinality({x \in rows : SqlLe(x.position, 10)})]

DriverQueryRows ==
    LET joined == DriverJoin
    IN {DriverAggregate(k, joined) : k \in DriverGroups(joined)}

\* ORDER BY total_points DESC
DriverQuery ==
    LET rows == DriverQueryRows
    IN SortsBy(rows, [r \in rows |-> 0 - r.total_points])

\* WithRates with the podium and points-finish counts exchanged
WithRatesSwapped(row) ==
    [driver_id |-> row.driver_id,
     driver_name |-> row.driver_name,
     constructor |-> row.constructor,
     races_completed |-> row.races_completed,
     total_points |-> row.total_points,
     avg_points_per_race |-> row.avg_points_per_race,
     avg_position |-> row.avg_position,
     best_position |-> row.best_position,
     worst_position |-> row.worst_position,
     wins |-> row.wins,
     podiums |-> row.podiums,
     points_finishes |-> row.points_finishes,
     podium_rate |-> Frac(row.points_finishes * 100, row.races_completed),
     points_rate |-> Frac(row.podiums * 100, row.races_completed),
     win_rate |-> Frac(row.wins * 100, row.races_completed)]

\* df['podium_rate'], df['points_rate'], df['win_rate']
WithRates(row) ==
    [driver_id |-> row.driver_id,
     driver_name |-> row.driver_name,
     constructor |-> row.constructor,
     races_completed |-> row.races_completed,
     total_points |-> row.total_points,
     avg_points_per_race |-> row.avg_points_per_race,
     avg_position |-> row.avg_position,
     best_position |-> row.best_position,
     worst_position |-> row.worst_position,
     wins |-> row.wins,
     podiums |-> row.podiums,
     points_finishes |-> row.points_finishes,
     podium_rate |-> Frac(row.podiums * 100, row.races_completed),
     points_rate |-> Frac(row.points_finishes * 100, row.races_completed),
     win_rate |-> Frac(row.wins * 100, row.races_completed)]

\* ROUND(SQRT(SUM((position - avg_pos)^2) / COUNT(*)), 2) in hundredths:
\* with n rows, s = SUM(position) and q = SUM(position^2) the variance is
\* (n*q - s*s) / n^2
RoundedStdDev(rows) ==
    LET n == Cardinality(rows)
        a == n * SumSqPosition(rows) - SumPosition(rows) * SumPosition(rows)
    IN (ISqrt(40000 * a) + n) \div (2 * n)

\* a consistency query grouped by driver and constructor
ConsistencyPerConstructor ==
    LET rows == {rr \in race_results : rr.position # NULL}
        keys == {<<rr.driver_id, rr.constructor_id>> : rr \in rows}
        out == { [driver_id |-> k[1],
                  position_consistency |->
                      RoundedStdDev({rr \in rows : /\ rr.driver_id = k[1]
                                                   /\ rr.constructor_id = k[2]})] :
                 k \in keys }
    IN SortsBy(out, [r \in out |-> r.driver_id])
\* the consistency query: one row per driver_id over the non-null positions
ConsistencyQuery ==
    LET rows == {rr \in race_results : rr.position # NULL}
        ids == {rr.driver_id : rr \in rows}
        out == { [driver_id |-> id,
                  position_consistency |->
                      RoundedStdDev({rr \in rows : rr.driver_id = id})] : id \in ids }
    IN SortsBy(out, [r \in out |-> r.driver_id])

\* a df row with the position_consistency column added
WithConsistency(row, value) ==
    [driver_id |-> row.driver_id,
     driver_name |-> row.driver_name,
     constructor |-> row.constructor,
     races_completed |-> row.races_completed,
     total_points |-> row.total_points,
     avg_points_per_race |-> row.avg_points_per_race,
     avg_position |-> row.avg_position,
     best_position |-> row.best_position,
     worst_position |-> row.worst_position,
     wins |-> row.wins,
     podiums |-> row.podiums,
     points_finishes |-> row.points_finishes,
     podium_rate |-> row.podium_rate,
     points_rate |-> row.points_rate,
     win_rate |-> row.win_rate,
     position_consistency |-> value]

\* the rows of right with the key of one left row, in right's order
RECURSIVE MatchesOf(_, _)
MatchesOf(row, right) ==
    IF right = <<>> THEN <<>>
    ELSE (IF Head(right).driver_id = row.driver_id
          THEN <<WithConsistency(row, Head(right).position_consistency)>>
          ELSE <<>>) \o MatchesOf(row, Tail(right))

\* the rows of left with the key of one right row, in left's order
RECURSIVE MatchedBy(_, _)
MatchedBy(left, r) ==
    IF left = <<>> THEN <<>>
    ELSE (IF Head(left).driver_id = r.driver_id
          THEN <<WithConsistency(Head(left), r.position_consistency)>>
          ELSE <<>>) \o MatchedBy(Tail(left), r)

\* a merge that follows the order of right (how='right')
RECURSIVE MergeRight(_, _)
MergeRight(left, right) ==
    IF right = <<>> THEN <<>>
    ELSE MatchedBy(left, Head(right)) \o MergeRight(left, Tail(right))

\* df.merge(consistency_df, on='driver_id', how='left'): the rows of left in
\* left's order, each once per matching row of right, or once with NaN
RECURSIVE MergeLeft(_, _)
MergeLeft(left, right) ==
    IF left = <<>> THEN <<>>
    ELSE LET m == MatchesOf(Head(left), right)
         IN (IF m = <<>> THEN <<WithConsistency(Head(left), NULL)>> ELSE m)
                \o MergeLeft(Tail(left), right)

\* the column the rates are added to, row by row
AddRates(df) == [i \in 1..Len(df) |-> WithRates(df[i])]

GetDriverPerformanceMetrics ==
    /\ ret = NoCall
    /\ \E query_df \in DriverQuery, consistency_df \in ConsistencyQuery :
          ret' = [op |-> "get_driver_performance_metrics",
                  query_df |-> query_df,
                  df |-> MergeLeft(AddRates(query_df), consistency_df)]
    /\ UNCHANGED <<store, env, engine>>

(***************************************************************************)
(* Driver performance metrics: properties                                  *)
(***************************************************************************)
IsDriverCall == ret.op = "get_driver_performance_metrics"

AllDriverIds == DriverIds \cup UnknownDriverIds

\* the results of a driver that carry a finishing position
ClassifiedResultsOf(driver_id) ==
    {rr \in race_results : rr.driver_id = driver_id /\ rr.position # NULL}

RowsOfDriver(df, driver_id) == {i \in 1..Len(df) : df[i].driver_id = driver_id}

\* C1 (as claimed): exactly one row per driver who has a result with a
\* non-null position, also when those results are spread over several
\* constructors, and no row for any other driver.
C1_OneRowPerDriver ==
    IsDriverCall =>
        \A id \in AllDriverIds :
            Cardinality(RowsOfDriver(ret.df, id)) =
                (IF ClassifiedResultsOf(id) # {} THEN 1 ELSE 0)

\* C2 (as claimed): every row counts and sums over all results of its driver
\* that have a non-null position: races_completed, wins (position = 1),
\* podiums (<= 3), points_finishes (<= 10), total_points, avg_position.
C2_RowAggregatesDriver ==
    IsDriverCall =>
        \A i \in 1..Len(ret.df) :
            LET row == ret.df[i]
                rs == ClassifiedResultsOf(row.driver_id)
            IN /\ row.races_completed = Cardinality(rs)
               /\ row.wins = Cardinality({x \in rs : x.position = 1})
               /\ row.podiums = Cardinality({x \in rs : x.position <= 3})
               /\ row.points_finishes = Cardinality({x \in rs : x.position <= 10})
               /\ row.total_points = SumPoints(rs)
               /\ row.avg_position.num * Cardinality(rs)
                      = SumPosition(rs) * row.avg_position.den

\* rate = 100 * count / total, and 0 <= rate <= 100
RateIs(rate, count, total) ==
    /\ rate.den > 0
    /\ rate.num * total = 100 * count * rate.den
    /\ 0 <= rate.num
    /\ rate.num <= 100 * rate.den

\* C3: in every returned row races_completed is at least 1 and podium_rate,
\* win_rate and points_rate are 100 * podiums (wins, points_finishes) /
\* races_completed, each within 0..100.
C3_RatesDefinedAndBounded ==
    IsDriverCall =>
        \A i \in 1..Len(ret.df) :
            LET row == ret.df[i]
            IN /\ row.races_completed >= 1
               /\ RateIs(row.podium_rate, row.podiums, row.races_completed)
               /\ RateIs(row.win_rate, row.wins, row.races_completed)
               /\ RateIs(row.points_rate, row.points_finishes, row.races_completed)

\* a row whose podium rate is strictly between 0 and 100 and differs from
\* its points rate
C3_Witness ==
    /\ IsDriverCall
    /\ \E i \in 1..Len(ret.df) :
          /\ 0 < ret.df[i].podiums
          /\ ret.df[i].podiums < ret.df[i].races_completed
          /\ ret.df[i].podiums < ret.df[i].points_finishes

\* the columns of the query, unchanged in the merged row
SameQueryColumns(a, b) ==
    /\ a.driver_id = b.driver_id
    /\ a.driver_name = b.driver_name
    /\ a.constructor = b.constructor
    /\ a.races_completed = b.races_completed
    /\ a.total_points = b.total_points
    /\ a.wins = b.wins
    /\ a.podiums = b.podiums
    /\ a.points_finishes = b.points_finishes

\* C4: the returned rows are in non-increasing order of total_points, and
\* the merge of position_consistency keeps the rows of the query: same
\* number, same rows, same order (so ties stay as the query produced them).
C4_SortedAndMergeKeepsOrder ==
    IsDriverCall =>
        /\ \A i \in 1..Len(ret.df), j \in 1..Len(ret.df) :
              i < j => ret.df[i].total_points >= ret.df[j].total_points
        /\ Len(ret.df) = Len(ret.query_df)
        /\ \A i \in 1..Len(ret.df) : SameQueryColumns(ret.df[i], ret.query_df[i])

\* three rows: the leader has the larger driver id, the other two are tied
\* and stand against the order of their driver ids
C4_Witness ==
    /\ IsDriverCall
    /\ Len(ret.df) = 3
    /\ ret.df[1].total_points > ret.df[2].total_points
    /\ ret.df[2].total_points = ret.df[3].total_points
    /\ ret.df[1].driver_id = 2
    /\ ret.df[2].constructor = "Ferrari"
    /\ ret.df[3].constructor = "Red Bull"

HasQualifying(driver_id) == \E q \in qualifying_results : q.driver_id = driver_id

\* C5 (as claimed): a driver with no row in qualifying_results has no row
\* in the output.
C5_ExcludesDriversWithoutQualifying ==
    IsDriverCall =>
        \A i \in 1..Len(ret.df) : HasQualifying(ret.df[i].driver_id)

\* C5 (amended): qualifying_results is not consulted: a driver who has no
\* qualifying result and has a result with a non-null position (whose driver
\* and constructor rows exist) has a row in the output.
C5_QualifyingNotConsulted ==
    IsDriverCall =>
        \A id \in AllDriverIds :
            (/\ ~HasQualifying(id)
             /\ \E rr \in ClassifiedResultsOf(id) :
                   /\ \E d \in drivers : d.driver_id = rr.driver_id
                   /\ \E c \in constructors : c.constructor_id = rr.constructor_id)
                => RowsOfDriver(ret.df, id) # {}

\* both drivers are listed, neither has a qualifying result
C5_Witness ==
    /\ IsDriverCall
    /\ \A id \in DriverIds : ~HasQualifying(id) /\ RowsOfDriver(ret.df, id) # {}

\* the feed of the driver and constructor reports: the two races of one season
ReportRaceIds == {1, 2}

Next ==
    \/ SaveCircuits
    \/ SaveDrivers
    \/ SaveConstructors
    \/ SaveRaces(2023)
    \/ \E r \in ReportRaceIds, d \in DriverIds, p \in PositionValues, pts \in PointsValues :
          SaveResult(r, d, p, pts)
    \/ GetDriverPerformanceMetrics
    \/ Return

Spec == Init /\ [][Next]_vars

(***************************************************************************)
(* Position consistency: a driver with up to three results, so that the    *)
(* standard deviation is not a multiple of a half                          *)
(***************************************************************************)
ConsistencyPositionValues == {NULL, 1, 2, 4}

\* driver 1 in every race of both seasons, driver 2 in the first race
NextConsistency ==
    \/ SaveCircuits
    \/ SaveDrivers
    \/ SaveConstructors
    \/ \E year \in Years : SaveRaces(year)
    \/ \E r \in RaceIds, d \in DriverIds, p \in ConsistencyPositionValues :
          (d = 1 \/ r = 1) /\ SaveResult(r, d, p, 0)
    \/ GetDriverPerformanceMetrics
    \/ Return

SpecConsistency == Init /\ [][NextConsistency]_vars

\* all results of the driver have the same finishing position
SamePositions(rs) == \A x \in rs, y \in rs : x.position = y.position

\* C24: position_consistency of every returned row, in hundredths v, is the
\* population standard deviation sqrt(a) / n of all n non-null finishing
\* positions of the row's driver, where a = n * sum(p^2) - sum(p)^2, rounded
\* to 2 decimals (half up): (2v - 1) n <= 200 sqrt(a) < (2v + 1) n.  It is
\* never null, and 0 exactly when all those positions are equal.
C24_ConsistencyIsPopulationStdDev ==
    IsDriverCall =>
        \A i \in 1..Len(ret.df) :
            LET v == ret.df[i].position_consistency
                rs == ClassifiedResultsOf(ret.df[i].driver_id)
                n == Cardinality(rs)
                a == n * SumSqPosition(rs) - SumPosition(rs) * SumPosition(rs)
            IN /\ v # NULL
               /\ v >= 0
               /\ (v > 0) => ((2 * v - 1) * n) * ((2 * v - 1) * n) <= 40000 * a
               /\ 40000 * a < ((2 * v + 1) * n) * ((2 * v + 1) * n)
               /\ (v = 0) <=> SamePositions(rs)

\* a driver with the positions 1, 2 and 4 for two constructors: two rows,
\* both with the deviation 1.25 (sqrt(14) / 3 = 1.247...) of the three
\* results, next to a driver with one result and the deviation 0
C24_Witness ==
    /\ IsDriverCall
    /\ \E i \in 1..Len(ret.df), j \in 1..Len(ret.df), k \in 1..Len(ret.df) :
          /\ i # j
          /\ ret.df[i].driver_id = ret.df[j].driver_id
          /\ ret.df[i].races_completed = 1
          /\ ret.df[j].races_completed = 2
          /\ {rr.position : rr \in ClassifiedResultsOf(ret.df[i].driver_id)} = {1, 2, 4}
          /\ ret.df[i].position_consistency = 125
          /\ ret.df[j].position_consistency = 125
          /\ ret.df[k].position_consistency = 0

(***************************************************************************)
(* F1Analytics.get_head_to_head_comparison                                 *)
(***************************************************************************)
\* a tie counted for driver 1
WinnerFlagNoTie(position1, position2) ==
    CASE SqlLe(position1, position2) -> 1
      [] SqlLt(position2, position1) -> 2
      [] OTHER -> 0

\* CASE WHEN rr1.position < rr2.position THEN 1
\*      WHEN rr1.position > rr2.position THEN 2 ELSE 0 END
WinnerFlag(position1, position2) ==
    CASE SqlLt(position1, position2) -> 1
      [] SqlLt(position2, position1) -> 2
      [] OTHER -> 0

\* FROM races r JOIN race_results rr1 JOIN race_results rr2
\* JOIN drivers d1 JOIN drivers d2
\* WHERE rr1.position IS NOT NULL AND rr2.position IS NOT NULL
\* a join that asks for a finishing position of the first driver only
H2HJoinFirstClassified(driver1_id, driver2_id) ==
    { j \in [r : races, rr1 : race_results, rr2 : race_results,
             d1 : drivers, d2 : drivers] :
        /\ j.r.race_id = j.rr1.race_id /\ j.rr1.driver_id = driver1_id
        /\ j.r.race_id = j.rr2.race_id /\ j.rr2.driver_id = driver2_id
        /\ j.rr1.driver_id = j.d1.driver_id
        /\ j.rr2.driver_id = j.d2.driver_id
        /\ j.rr1.position # NULL }
H2HJoin(driver1_id, driver2_id) ==
    { j \in [r : races, rr1 : race_results, rr2 : race_results,
             d1 : drivers, d2 : drivers] :
        /\ j.r.race_id = j.rr1.race_id /\ j.rr1.driver_id = driver1_id
        /\ j.r.race_id = j.rr2.race_id /\ j.rr2.driver_id = driver2_id
        /\ j.rr1.driver_id = j.d1.driver_id
        /\ j.rr2.driver_id = j.d2.driver_id
        /\ j.rr1.position # NULL /\ j.rr2.position # NULL }

H2HRow(j) ==
    [race_name |-> j.r.name,
     date |-> j.r.date,
     driver1_name |-> <<j.d1.forename, j.d1.surname>>,
     driver1_position |-> j.rr1.position,
     driver1_points |-> j.rr1.points,
     driver2_name |-> <<j.d2.forename, j.d2.surname>>,
     driver2_position |-> j.rr2.position,
     driver2_points |-> j.rr2.points,
     winner |-> WinnerFlag(j.rr1.position, j.rr2.position)]

\* ORDER BY r.date
H2HQuery(driver1_id, driver2_id) ==
    LET joined == H2HJoin(driver1_id, driver2_id)
    IN { [i \in 1..Len(s) |-> H2HRow(s[i])] :
           s \in SortsBy(joined, [j \in joined |-> j.r.date]) }

CountWinner(df, flag) == Cardinality({i \in 1..Len(df) : df[i].winner = flag})

RECURSIVE SumColumn(_, _)
\* Series.sum() of one column
SumColumn(df, column) ==
    IF df = <<>> THEN 0 ELSE Head(df)[column] + SumColumn(Tail(df), column)

\* the empty dict
EmptyStats == [k \in {} |-> 0]

\* a summary of zeros for an empty table
H2HStatsZeroFilled(df) ==
    [total_races |-> Len(df),
     driver1_wins |-> CountWinner(df, 1),
     driver2_wins |-> CountWinner(df, 2),
     ties |-> CountWinner(df, 0),
     driver1_avg_position |-> Frac(SumColumn(df, "driver1_position"), Len(df)),
     driver2_avg_position |-> Frac(SumColumn(df, "driver2_position"), Len(df)),
     driver1_total_points |-> SumColumn(df, "driver1_points"),
     driver2_total_points |-> SumColumn(df, "driver2_points")]

\* the ties counted with the flag of driver 1
H2HStatsTiesMiscounted(df) ==
    IF df # <<>>
    THEN [total_races |-> Len(df),
          driver1_wins |-> CountWinner(df, 1),
          driver2_wins |-> CountWinner(df, 2),
          ties |-> CountWinner(df, 1),
          driver1_avg_position |-> Frac(SumColumn(df, "driver1_position"), Len(df)),
          driver2_avg_position |-> Frac(SumColumn(df, "driver2_position"), Len(df)),
          driver1_total_points |-> SumColumn(df, "driver1_points"),
          driver2_total_points |-> SumColumn(df, "driver2_points")]
    ELSE EmptyStats

\* if not df.empty: h2h_stats = {...} else: h2h_stats = {}
H2HStats(df) ==
    IF df # <<>>
    THEN [total_races |-> Len(df),
          driver1_wins |-> CountWinner(df, 1),
          driver2_wins |-> CountWinner(df, 2),
          ties |-> CountWinner(df, 0),
          driver1_avg_position |-> Frac(SumColumn(df, "driver1_position"), Len(df)),
          driver2_avg_position |-> Frac(SumColumn(df, "driver2_position"), Len(df)),
          driver1_total_points |-> SumColumn(df, "driver1_points"),
          driver2_total_points |-> SumColumn(df, "driver2_points")]
    ELSE EmptyStats

GetHeadToHeadComparison(driver1_id, driver2_id) ==
    /\ ret = NoCall
    /\ \E df \in H2HQuery(driver1_id, driver2_id) :
          ret' = [op |-> "get_head_to_head_comparison",
                  driver1_id |-> driver1_id,
                  driver2_id |-> driver2_id,
                  df |-> df,
                  h2h_stats |-> H2HStats(df)]
    /\ UNCHANGED <<store, env, engine>>

\* the feed of the comparison: the two races of one season, positions that
\* can be equal, ahead, behind or missing
H2HRaceIds == {1, 2}
H2HPositionValues == {NULL, 1, 2}

NextH2H ==
    \/ SaveCircuits
    \/ SaveDrivers
    \/ SaveConstructors
    \/ SaveRaces(2023)
    \/ \E r \in H2HRaceIds, d \in DriverIds, p \in H2HPositionValues, pts \in PointsValues :
          SaveResult(r, d, p, pts)
    \/ \E a \in AllDriverIds, b \in AllDriverIds : GetHeadToHeadComparison(a, b)
    \/ Return

SpecH2H == Init /\ [][NextH2H]_vars

(***************************************************************************)
(* Head-to-head comparison: properties                                     *)
(***************************************************************************)
IsH2HCall == ret.op = "get_head_to_head_comparison"

\* the result of a driver in a race, when it carries a finishing position
ClassifiedIn(race_id, driver_id) ==
    {rr \in race_results :
        rr.race_id = race_id /\ rr.driver_id = driver_id /\ rr.position # NULL}

\* the races in which both drivers have a result with a non-null position
SharedRaces(driver1_id, driver2_id) ==
    {r \in races : /\ ClassifiedIn(r.race_id, driver1_id) # {}
                   /\ ClassifiedIn(r.race_id, driver2_id) # {}}

RowsOfRace(df, r) ==
    {i \in 1..Len(df) : df[i].race_name = r.name /\ df[i].date = r.date}

\* C6: the table has exactly one row per race in which both drivers have a
\* result with a non-null position and no other row; winner is 1 iff A's
\* position is smaller, 2 iff it is larger, 0 iff the positions are equal.
C6_OneRowPerSharedRace ==
    IsH2HCall =>
        LET shared == SharedRaces(ret.driver1_id, ret.driver2_id)
        IN /\ Len(ret.df) = Cardinality(shared)
           /\ \A r \in races :
                 Cardinality(RowsOfRace(ret.df, r)) = (IF r \in shared THEN 1 ELSE 0)
           /\ \A r \in shared : \A i \in RowsOfRace(ret.df, r) :
                 \A rr1 \in ClassifiedIn(r.race_id, ret.driver1_id),
                    rr2 \in ClassifiedIn(r.race_id, ret.driver2_id) :
                     /\ ret.df[i].driver1_position = rr1.position
                     /\ ret.df[i].driver2_position = rr2.position
                     /\ (ret.df[i].winner = 1) <=> (rr1.position < rr2.position)
                     /\ (ret.df[i].winner = 2) <=> (rr1.position > rr2.position)
                     /\ (ret.df[i].winner = 0) <=> (rr1.position = rr2.position)

\* two different drivers: one race is shared and tied, in the other race B
\* has a result without position, so that race is not listed
C6_Witness ==
    /\ IsH2HCall
    /\ ret.driver1_id # ret.driver2_id
    /\ Len(ret.df) = 1
    /\ ret.df[1].winner = 0
    /\ \E rr \in race_results : rr.driver_id = ret.driver2_id /\ rr.position = NULL

\* C7: a non-empty summary has driver1_wins + driver2_wins + ties =
\* total_races, and total_races is the number of rows of the table.
C7_WinsAddUp ==
    (IsH2HCall /\ DOMAIN ret.h2h_stats # {}) =>
        /\ ret.h2h_stats.driver1_wins + ret.h2h_stats.driver2_wins
              + ret.h2h_stats.ties = ret.h2h_stats.total_races
        /\ ret.h2h_stats.total_races = Len(ret.df)

\* A ahead of B in both of two shared races: 2 wins, 0, 0
C7_Witness ==
    /\ IsH2HCall
    /\ ret.driver1_id # ret.driver2_id
    /\ Len(ret.df) = 2
    /\ \A i \in 1..2 : ret.df[i].driver1_position < ret.df[i].driver2_position
    /\ ret.h2h_stats.driver1_wins = 2
    /\ ret.h2h_stats.driver2_wins = 0
    /\ ret.h2h_stats.ties = 0

\* C8: the call is possible for every pair of ids, known or not; without a
\* shared race it returns an empty table and a summary without keys; the
\* summary has keys exactly when the table has rows.
C8_EmptySummaryWhenNoSharedRace ==
    /\ (ret = NoCall) =>
          \A a \in AllDriverIds, b \in AllDriverIds :
              ENABLED GetHeadToHeadComparison(a, b)
    /\ IsH2HCall =>
          /\ (SharedRaces(ret.driver1_id, ret.driver2_id) = {}) =>
                (ret.df = <<>> /\ DOMAIN ret.h2h_stats = {})
          /\ (DOMAIN ret.h2h_stats # {}) <=> (ret.df # <<>>)

\* a known driver with a classified result against an unknown id
C8_Witness ==
    /\ IsH2HCall
    /\ ret.driver2_id \in UnknownDriverIds
    /\ ClassifiedResultsOf(ret.driver1_id) # {}
    /\ ret.df = <<>>
    /\ DOMAIN ret.h2h_stats = {}

(***************************************************************************)
(* F1Analytics.get_championship_progression                                *)
(***************************************************************************)
\* FROM races r JOIN race_results rr JOIN drivers d
ProgressionJoin ==
    { j \in [r : races, rr : race_results, d : drivers] :
        /\ j.r.race_id = j.rr.race_id
        /\ j.rr.driver_id = j.d.driver_id }

RECURSIVE RunningSum(_, _)
\* SUM(rr.points) over the first i rows of a window (ROWS UNBOUNDED PRECEDING)
RunningSum(window, i) ==
    IF i = 0 THEN 0 ELSE window[i].rr.points + RunningSum(window, i - 1)

\* PARTITION BY d.driver_id ORDER BY r.round: every way to order each
\* driver's rows by round, one ordering per driver
ProgressionWindows(joined) ==
    LET ids == {j.d.driver_id : j \in joined}
        part(id) == {j \in joined : j.d.driver_id = id}
        orders(id) == SortsBy(part(id), [j \in part(id) |-> j.r.round])
    IN {w \in [ids -> UNION {orders(id) : id \in ids}] :
          \A id \in ids : w[id] \in orders(id)}

\* the joined rows of every window with their running totals
Windowed(w) ==
    UNION { { [j |-> w[id][i], cumulative_points |-> RunningSum(w[id], i)] :
                i \in 1..Len(w[id]) } : id \in DOMAIN w }

ProgressionRow(x) ==
    [round |-> x.j.r.round,
     race_name |-> x.j.r.name,
     date |-> x.j.r.date,
     driver_name |-> <<x.j.d.forename, x.j.d.surname>>,
     race_points |-> x.j.rr.points,
     cumulative_points |-> x.cumulative_points]

\* ORDER BY r.round, cumulative_points DESC: ascending in round, and within
\* a round descending in cumulative_points (below top)
ProgressionOrders(rows) ==
    LET top == SumPoints(race_results) + 1
    IN SortsBy(rows, [x \in rows |-> x.j.r.round * top - x.cumulative_points])

ProgressionQuery ==
    UNION { { [i \in 1..Len(s) |-> ProgressionRow(s[i])] :
                s \in ProgressionOrders(Windowed(w)) } :
            w \in ProgressionWindows(ProgressionJoin) }

GetChampionshipProgression ==
    /\ ret = NoCall
    /\ \E df \in ProgressionQuery :
          ret' = [op |-> "get_championship_progression", df |-> df]
    /\ UNCHANGED <<store, env, engine>>

\* the feed of the progression: races of two seasons; the query reads no
\* finishing position
ProgressionPositionValues == {1}

NextProgression ==
    \/ SaveCircuits
    \/ SaveDrivers
    \/ SaveConstructors
    \/ \E y \in Years : SaveRaces(y)
    \/ \E r \in RaceIds, d \in DriverIds, p \in ProgressionPositionValues,
          pts \in PointsValues : SaveResult(r, d, p, pts)
    \/ GetChampionshipProgression
    \/ Return

SpecProgression == Init /\ [][NextProgression]_vars

(***************************************************************************)
(* Championship progression: properties                                    *)
(***************************************************************************)
IsProgressionCall == ret.op = "get_championship_progression"

\* the results of a driver, given by name, in the races of rounds 1..n
ResultsUpToRound(driver_name, n) ==
    {rr \in race_results :
        /\ \E d \in drivers : /\ d.driver_id = rr.driver_id
                              /\ <<d.forename, d.surname>> = driver_name
        /\ \E r \in races : r.race_id = rr.race_id /\ r.round <= n}

\* the store keeps the schema's uniqueness constraints: races unique on
\* (year, round), results unique on (race_id, driver_id)
SchemaUnique ==
    /\ \A a \in races, b \in races :
          (a.year = b.year /\ a.round = b.round) => a = b
    /\ \A a \in race_results, b \in race_results :
          (a.race_id = b.race_id /\ a.driver_id = b.driver_id) => a = b

\* C9 (as claimed): in every row cumulative_points is the sum of the
\* driver's race points over rounds 1..N, N the round of the row, and per
\* driver cumulative_points does not decrease from round to round, also
\* with races of several seasons in the store.
C9_CumulativeIsSumOfRounds ==
    IsProgressionCall =>
        /\ \A i \in 1..Len(ret.df) :
              ret.df[i].cumulative_points =
                  SumPoints(ResultsUpToRound(ret.df[i].driver_name, ret.df[i].round))
        /\ \A i \in 1..Len(ret.df), k \in 1..Len(ret.df) :
              (/\ ret.df[i].driver_name = ret.df[k].driver_name
               /\ ret.df[i].round < ret.df[k].round)
                  => ret.df[i].cumulative_points <= ret.df[k].cumulative_points

\* C10 (as claimed): with the schema's uniqueness constraints kept, no two
\* rows share the same round and the same driver.
C10_OneRowPerRoundAndDriver ==
    (IsProgressionCall /\ SchemaUnique) =>
        \A i \in 1..Len(ret.df), k \in 1..Len(ret.df) :
            (/\ ret.df[i].round = ret.df[k].round
             /\ ret.df[i].driver_name = ret.df[k].driver_name) => i = k

(***************************************************************************)
(* F1Analytics.get_race_analysis                                           *)
(***************************************************************************)
\* SQL NULL in a text column, and the NULL that || makes of it
NullText == "NULL"
NullName == <<>>

\* the all-NULL row a LEFT JOIN supplies when no row matches
NullResult ==
    [race_id |-> NULL, driver_id |-> NULL, constructor_id |-> NULL,
     position |-> NULL, points |-> NULL]
NullDriver == [driver_id |-> NULL, forename |-> NullText, surname |-> NullText]
NullConstructor == [constructor_id |-> NULL, name |-> NullText]

\* the right side of a LEFT JOIN for one left row: the matching rows, or the
\* all-NULL row when nothing matches
LeftRows(matches, null) == IF matches = {} THEN {null} ELSE matches

\* LEFT JOIN drivers d ON winner_data.driver_id = d.driver_id
\* LEFT JOIN constructors winner_constructor ON winner_data.constructor_id = ...
JoinWinner(r, c, rr, w) ==
    { [r |-> r, c |-> c, rr |-> rr, w |-> w, d |-> d, wc |-> wc] :
        d \in LeftRows({x \in drivers : SqlEq(x.driver_id, w.driver_id)}, NullDriver),
        wc \in LeftRows({x \in constructors :
                            SqlEq(x.constructor_id, w.constructor_id)},
                        NullConstructor) }

\* JOIN circuits c LEFT JOIN race_results rr
\* LEFT JOIN (SELECT ... FROM race_results WHERE position = 1) winner_data
JoinRace(r) ==
    UNION { JoinWinner(r, c, rr, w) :
              c \in {x \in circuits : x.circuit_id = r.circuit_id},
              rr \in LeftRows({x \in race_results : x.race_id = r.race_id}, NullResult),
              w \in LeftRows({x \in race_results : /\ x.race_id = r.race_id
                                                   /\ SqlEq(x.position, 1)},
                             NullResult) }

\* FROM races r ...
RaceJoin == UNION {JoinRace(r) : r \in races}

\* GROUP BY r.race_id, r.name, r.date, c.name, c.country, d.forename,
\* d.surname, winner_constructor.name, winner_data.points
RaceGroupKey(j) ==
    [race_id |-> j.r.race_id, race_name |-> j.r.name, date |-> j.r.date,
     circuit_name |-> j.c.name, country |-> j.c.country,
     forename |-> j.d.forename, surname |-> j.d.surname,
     winning_constructor |-> j.wc.name, points |-> j.w.points]

RaceGroup(key, joined) == {j \in joined : RaceGroupKey(j) = key}

RECURSIVE SumJoinedPosition(_)
\* SUM(rr.position) over joined rows (NULL positions are skipped)
SumJoinedPosition(group) ==
    IF group = {} THEN 0
    ELSE LET x == CHOOSE y \in group : TRUE
         IN (IF x.rr.position = NULL THEN 0 ELSE x.rr.position)
                + SumJoinedPosition(group \ {x})

\* AVG(rr.position): NULL when no row of the group has a position
AvgJoinedPosition(group) ==
    LET n == Cardinality({x \in group : x.rr.position # NULL})
    IN IF n = 0 THEN Frac(NULL, 1) ELSE Frac(SumJoinedPosition(group), n)

\* d.forename || ' ' || d.surname
FullName(forename, surname) ==
    IF forename = NullText \/ surname = NullText THEN NullName
    ELSE <<forename, surname>>

\* the SELECT list for one group.  rr.points is neither grouped nor
\* aggregated: SQLite takes it from one row of the group, here bare
RaceRow(key, group, bare) ==
    [race_id |-> key.race_id,
     race_name |-> key.race_name,
     date |-> key.date,
     circuit_name |-> key.circuit_name,
     country |-> key.country,
     participants |-> Cardinality({x \in group : x.rr.driver_id # NULL}),
     avg_finishing_position |-> AvgJoinedPosition(group),
     winner |-> FullName(key.forename, key.surname),
     winning_constructor |-> key.winning_constructor,
     winner_points |-> bare.rr.points]

RECURSIVE RaceRowSets(_, _)
\* one row per group, rr.points from any row of the group
RaceRowSets(keys, joined) ==
    IF keys = {} THEN {{}}
    ELSE LET k == CHOOSE y \in keys : TRUE
             group == RaceGroup(k, joined)
         IN { {row} \cup rest : row \in {RaceRow(k, group, bare) : bare \in group},
                                rest \in RaceRowSets(keys \ {k}, joined) }

\* every result of the query, ORDER BY r.date DESC
RaceQuery ==
    LET joined == RaceJoin
    IN UNION { SortsBy(rows, [x \in rows |-> 0 - x.date]) :
                 rows \in RaceRowSets({RaceGroupKey(j) : j \in joined}, joined) }

GetRaceAnalysis ==
    /\ ret = NoCall
    /\ \E df \in RaceQuery : ret' = [op |-> "get_race_analysis", df |-> df]
    /\ UNCHANGED <<store, env, engine>>

\* the feed of the race analysis: the two races of one season; a winner, a
\* runner-up or no classification
RacePositionValues == {NULL, 1, 2}

NextRace ==
    \/ SaveCircuits
    \/ SaveDrivers
    \/ SaveConstructors
    \/ SaveRaces(2023)
    \/ \E r \in ReportRaceIds, d \in DriverIds, p \in RacePositionValues,
          pts \in PointsValues : SaveResult(r, d, p, pts)
    \/ GetRaceAnalysis
    \/ Return

SpecRace == Init /\ [][NextRace]_vars

(***************************************************************************)
(* Race analysis: properties                                               *)
(***************************************************************************)
IsRaceCall == ret.op = "get_race_analysis"

ResultsOfRace(race_id) == {rr \in race_results : rr.race_id = race_id}

\* the position = 1 results of a race
WinnersOfRace(race_id) == {rr \in ResultsOfRace(race_id) : rr.position = 1}

RowsOfRaceId(df, race_id) == {i \in 1..Len(df) : df[i].race_id = race_id}

\* C11 (as claimed): exactly one row per race of the store and no other row;
\* the row of a race without a position = 1 result, with or without results,
\* has winner, winning_constructor and winner_points all null.
C11_OneRowPerRace ==
    IsRaceCall =>
        /\ \A i \in 1..Len(ret.df) : \E r \in races : r.race_id = ret.df[i].race_id
        /\ \A r \in races :
              /\ Cardinality(RowsOfRaceId(ret.df, r.race_id)) = 1
              /\ (WinnersOfRace(r.race_id) = {}) =>
                    \A i \in RowsOfRaceId(ret.df, r.race_id) :
                        /\ ret.df[i].winner = NullName
                        /\ ret.df[i].winning_constructor = NullText
                        /\ ret.df[i].winner_points = NULL

\* C12 (as claimed): in the row of a race that has a position = 1 result,
\* winner_points is the points of the position = 1 result of the row's
\* winner, and participants is the number of results of the race.
C12_WinnerPointsAndParticipants ==
    IsRaceCall =>
        \A i \in 1..Len(ret.df) :
            LET row == ret.df[i]
            IN (WinnersOfRace(row.race_id) # {}) =>
                  /\ \E w \in WinnersOfRace(row.race_id) :
                        /\ \E d \in drivers :
                              /\ d.driver_id = w.driver_id
                              /\ row.winner = <<d.forename, d.surname>>
                        /\ row.winner_points = w.points
                  /\ row.participants = Cardinality(ResultsOfRace(row.race_id))

(***************************************************************************)
(* F1Analytics.get_circuit_performance                                     *)
(***************************************************************************)
\* FROM circuits c JOIN races r JOIN race_results rr, for one circuit
CircuitJoin(c) ==
    { j \in [r : races, rr : race_results] :
        /\ j.r.circuit_id = c.circuit_id
        /\ j.rr.race_id = j.r.race_id }

\* FROM races r JOIN race_results rr WHERE rr.position = 1
WinsJoin ==
    { j \in [r : races, rr : race_results] :
        /\ j.rr.race_id = j.r.race_id
        /\ SqlEq(j.rr.position, 1) }

\* SELECT r.circuit_id, rr.driver_id, COUNT(*) as wins
\* ... GROUP BY r.circuit_id, rr.driver_id
DriverWins ==
    LET joined == WinsJoin
    IN { [circuit_id |-> k[1], id |-> k[2],
          wins |-> Cardinality({j \in joined : /\ j.r.circuit_id = k[1]
                                               /\ j.rr.driver_id = k[2]})] :
           k \in {<<j.r.circuit_id, j.rr.driver_id>> : j \in joined} }

\* SELECT r.circuit_id, rr.constructor_id, COUNT(*) as wins
\* ... GROUP BY r.circuit_id, rr.constructor_id
ConstructorWins ==
    LET joined == WinsJoin
    IN { [circuit_id |-> k[1], id |-> k[2],
          wins |-> Cardinality({j \in joined : /\ j.r.circuit_id = k[1]
                                               /\ j.rr.constructor_id = k[2]})] :
           k \in {<<j.r.circuit_id, j.rr.constructor_id>> : j \in joined} }

\* any row of the circuit, whatever its count
AnyWinsRow(wins, circuit_id) == {x \in wins : x.circuit_id = circuit_id}

\* ROW_NUMBER() OVER (PARTITION BY r.circuit_id ORDER BY COUNT(*) DESC) = 1:
\* the rows that can come first in their circuit; rows with equal counts
\* come in any order
FirstByWins(wins, circuit_id) ==
    {x \in wins : /\ x.circuit_id = circuit_id
                  /\ \A y \in wins : y.circuit_id = circuit_id => y.wins <= x.wins}

\* the all-NULL row of LEFT JOIN driver_wins / constructor_wins
NullWins == [circuit_id |-> NULL, id |-> NULL, wins |-> NULL]

\* the rows the query can return for one circuit (GROUP BY c.circuit_id, ...,
\* with one driver_wins and one constructor_wins row per circuit)
CircuitRows(c) ==
    LET joined == CircuitJoin(c)
    IN { [circuit_name |-> c.name,
          country |-> c.country,
          total_races |-> Cardinality(joined),
          avg_position |-> AvgJoinedPosition(joined),
          most_successful_driver |->
              LET d == CHOOSE x \in LeftRows({y \in drivers : SqlEq(y.driver_id, dw.id)},
                                             NullDriver) : TRUE
              IN FullName(d.forename, d.surname),
          driver_wins_at_circuit |-> dw.wins,
          most_successful_constructor |->
              (CHOOSE x \in LeftRows({y \in constructors : SqlEq(y.constructor_id, cw.id)},
                                     NullConstructor) : TRUE).name,
          constructor_wins_at_circuit |-> cw.wins] :
           dw \in LeftRows(FirstByWins(DriverWins, c.circuit_id), NullWins),
           cw \in LeftRows(FirstByWins(ConstructorWins, c.circuit_id), NullWins) }

RECURSIVE CircuitRowSets(_)
\* one row for every circuit that has a result
CircuitRowSets(cs) ==
    IF cs = {} THEN {{}}
    ELSE LET c == CHOOSE y \in cs : TRUE
         IN IF CircuitJoin(c) = {} THEN CircuitRowSets(cs \ {c})
            ELSE { {row} \cup rest : row \in CircuitRows(c),
                                     rest \in CircuitRowSets(cs \ {c}) }

\* ORDER BY total_races DESC
CircuitQuery ==
    UNION { SortsBy(rows, [x \in rows |-> 0 - x.total_races]) :
              rows \in CircuitRowSets(circuits) }

GetCircuitPerformance ==
    /\ ret = NoCall
    /\ \E df \in CircuitQuery : ret' = [op |-> "get_circuit_performance", df |-> df]
    /\ UNCHANGED <<store, env, engine>>

\* the feed of the circuit report: the races of two seasons, two of them at
\* the same circuit; the query reads no points
CircuitPointsValues == {0}

NextCircuit ==
    \/ SaveCircuits
    \/ SaveDrivers
    \/ SaveConstructors
    \/ \E y \in Years : SaveRaces(y)
    \/ \E r \in RaceIds, d \in DriverIds, p \in RacePositionValues,
          pts \in CircuitPointsValues : SaveResult(r, d, p, pts)
    \/ GetCircuitPerformance
    \/ Return

SpecCircuit == Init /\ [][NextCircuit]_vars

(***************************************************************************)
(* Circuit performance: properties                                         *)
(***************************************************************************)
IsCircuitCall == ret.op = "get_circuit_performance"

RowsOfCircuit(df, c) == {i \in 1..Len(df) : df[i].circuit_name = c.name}

RacesAt(c) == {r \in races : r.circuit_id = c.circuit_id}

\* the position = 1 results of the races held at a circuit
WinsAt(c) == {rr \in race_results : /\ rr.position = 1
                                    /\ \E r \in RacesAt(c) : r.race_id = rr.race_id}

DriverWinsAt(c, driver_id) == Cardinality({rr \in WinsAt(c) : rr.driver_id = driver_id})

ConstructorWinsAt(c, constructor_id) ==
    Cardinality({rr \in WinsAt(c) : rr.constructor_id = constructor_id})

\* C13 (as claimed): every row is the row of a circuit, a circuit has at
\* most one row, a circuit with a result has a row, and total_races is the
\* number of races held at the circuit.
C13_TotalRacesIsRaceCount ==
    IsCircuitCall =>
        /\ \A i \in 1..Len(ret.df) : \E c \in circuits : i \in RowsOfCircuit(ret.df, c)
        /\ \A c \in circuits :
              /\ Cardinality(RowsOfCircuit(ret.df, c)) <= 1
              /\ (CircuitJoin(c) # {}) => RowsOfCircuit(ret.df, c) # {}
              /\ \A i \in RowsOfCircuit(ret.df, c) :
                    ret.df[i].total_races = Cardinality(RacesAt(c))

\* C14: a circuit has at most one row.  In the row of a circuit with a
\* position = 1 result, most_successful_driver is one driver whose number of
\* position = 1 results at the circuit is the largest of all drivers, and
\* driver_wins_at_circuit is that number (1 for a circuit with one race and
\* one winner); likewise for the constructor.  Without a position = 1 result
\* the four fields are null.
C14_MostSuccessfulIsMaximal ==
    IsCircuitCall =>
        \A c \in circuits :
            /\ Cardinality(RowsOfCircuit(ret.df, c)) <= 1
            /\ \A i \in RowsOfCircuit(ret.df, c) :
                  LET row == ret.df[i]
                  IN IF WinsAt(c) = {}
                     THEN /\ row.most_successful_driver = NullName
                          /\ row.driver_wins_at_circuit = NULL
                          /\ row.most_successful_constructor = NullText
                          /\ row.constructor_wins_at_circuit = NULL
                     ELSE /\ \E d \in drivers :
                                /\ row.most_successful_driver = <<d.forename, d.surname>>
                                /\ row.driver_wins_at_circuit = DriverWinsAt(c, d.driver_id)
                                /\ \A e \in drivers :
                                      DriverWinsAt(c, e.driver_id)
                                          <= DriverWinsAt(c, d.driver_id)
                          /\ \E k \in constructors :
                                /\ row.most_successful_constructor = k.name
                                /\ row.constructor_wins_at_circuit
                                      = ConstructorWinsAt(c, k.constructor_id)
                                /\ \A e \in constructors :
                                      ConstructorWinsAt(c, e.constructor_id)
                                          <= ConstructorWinsAt(c, k.constructor_id)

\* at the circuit with two races one driver has two wins and the other one
\* (the row reports the two); the circuit with one race and one winner
\* reports that winner with one win
C14_Witness ==
    /\ IsCircuitCall
    /\ Len(ret.df) = 2
    /\ \E c \in circuits :
          /\ Cardinality(RacesAt(c)) = 2
          /\ \E d \in drivers, e \in drivers :
                DriverWinsAt(c, d.driver_id) = 2 /\ DriverWinsAt(c, e.driver_id) = 1
          /\ \A i \in RowsOfCircuit(ret.df, c) : ret.df[i].driver_wins_at_circuit = 2
    /\ \E c \in circuits :
          /\ Cardinality(RacesAt(c)) = 1
          /\ Cardinality(WinsAt(c)) = 1
          /\ \A i \in RowsOfCircuit(ret.df, c) :
                /\ ret.df[i].driver_wins_at_circuit = 1
                /\ ret.df[i].constructor_wins_at_circuit = 1

(***************************************************************************)
(* F1Analytics.get_constructor_performance                                 *)
(***************************************************************************)
\* ConstructorJoin without the WHERE clause
ConstructorJoinUnfiltered ==
    { j \in [c : constructors, rr : race_results] :
        j.c.constructor_id = j.rr.constructor_id }

\* FROM constructors c JOIN race_results rr WHERE rr.position IS NOT NULL
ConstructorJoin ==
    { j \in [c : constructors, rr : race_results] :
        /\ j.c.constructor_id = j.rr.constructor_id
        /\ j.rr.position # NULL }

\* GROUP BY c.constructor_id, c.name, c.nationality
ConstructorGroupKey(j) ==
    [constructor_id |-> j.c.constructor_id, constructor_name |-> j.c.name]

\* the aggregates of one group and the three rates added to the row
ConstructorAggregate(key, joined) ==
    LET rows == {j.rr : j \in {x \in joined : ConstructorGroupKey(x) = key}}
        n == Cardinality(rows)
        wins == Cardinality({x \in rows : SqlEq(x.position, 1)})
        podiums == Cardinality({x \in rows : SqlLe(x.position, 3)})
        points_finishes == Cardinality({x \in rows : SqlLe(x.position, 10)})
    IN [constructor_id |-> key.constructor_id,
        constructor_name |-> key.constructor_name,
        drivers_used |-> Cardinality({x.driver_id : x \in rows}),
        total_entries |-> n,
        total_points |-> SumPoints(rows),
        avg_points_per_entry |-> Frac(SumPoints(rows), n),
        avg_position |-> Frac(SumPosition(rows), n),
        wins |-> wins,
        podiums |-> podiums,
        points_finishes |-> points_finishes,
        podium_rate |-> Frac(podiums * 100, n),
        points_rate |-> Frac(points_finishes * 100, n),
        win_rate |-> Frac(wins * 100, n)]

\* ORDER BY total_points DESC
ConstructorQuery ==
    LET joined == ConstructorJoin
        rows == {ConstructorAggregate(ConstructorGroupKey(j), joined) : j \in joined}
    IN SortsBy(rows, [r \in rows |-> 0 - r.total_points])

GetConstructorPerformance ==
    /\ ret = NoCall
    /\ \E df \in ConstructorQuery :
          ret' = [op |-> "get_constructor_performance", df |-> df]
    /\ UNCHANGED <<store, env, engine>>

\* the feed of the constructor report: a win, a finish outside the points
\* and no classification
ConstructorPositionValues == {NULL, 1, 11}

NextConstructor ==
    \/ SaveCircuits
    \/ SaveDrivers
    \/ SaveConstructors
    \/ SaveRaces(2023)
    \/ \E r \in ReportRaceIds, d \in DriverIds, p \in ConstructorPositionValues,
          pts \in PointsValues : SaveResult(r, d, p, pts)
    \/ GetConstructorPerformance
    \/ Return

SpecConstructor == Init /\ [][NextConstructor]_vars

(***************************************************************************)
(* Constructor performance: properties                                     *)
(***************************************************************************)
IsConstructorCall == ret.op = "get_constructor_performance"

\* the results of a constructor that carry a finishing position
ClassifiedEntriesOf(constructor_id) ==
    {rr \in race_results : rr.constructor_id = constructor_id /\ rr.position # NULL}

RowsOfConstructor(df, constructor_id) ==
    {i \in 1..Len(df) : df[i].constructor_id = constructor_id}

\* C15: exactly one row per constructor that has a result with a non-null
\* position and no other row; in it drivers_used is the number of distinct
\* drivers of those results, total_entries their number and total_points the
\* sum of their points; the rows are in non-increasing order of total_points.
C15_OneRowPerConstructor ==
    IsConstructorCall =>
        /\ \A i \in 1..Len(ret.df) :
              \E c \in constructors : c.constructor_id = ret.df[i].constructor_id
        /\ \A c \in constructors :
              LET rs == ClassifiedEntriesOf(c.constructor_id)
                  is == RowsOfConstructor(ret.df, c.constructor_id)
              IN /\ Cardinality(is) = (IF rs # {} THEN 1 ELSE 0)
                 /\ \A i \in is :
                       /\ ret.df[i].drivers_used = Cardinality({x.driver_id : x \in rs})
                       /\ ret.df[i].total_entries = Cardinality(rs)
                       /\ ret.df[i].total_points = SumPoints(rs)
        /\ \A i \in 1..Len(ret.df), k \in 1..Len(ret.df) :
              i < k => ret.df[i].total_points >= ret.df[k].total_points

\* two constructors listed; the first has two drivers in two classified
\* entries and more points than the second, and a third result of it, without
\* position, is not counted
C15_Witness ==
    /\ IsConstructorCall
    /\ Len(ret.df) = 2
    /\ ret.df[1].drivers_used = 2
    /\ ret.df[1].total_entries = 2
    /\ ret.df[1].total_points > ret.df[2].total_points
    /\ \E rr \in race_results : /\ rr.position = NULL
                                /\ rr.constructor_id = ret.df[1].constructor_id

(***************************************************************************)
(* The files around the engine, and F1Analytics.__init__                   *)
(***************************************************************************)
\* a script that connects to data/f1_database.db from the directory d where
\* no store file is: sqlite3.connect leaves an empty file, without tables
CreateStoreFile(d) ==
    /\ ret = NoCall
    /\ d \notin files
    /\ files' = files \cup {d}
    /\ UNCHANGED <<store, tables, math_functions, ergast, engine, ret>>

\* the store file of directory d is deleted; with the project's file its
\* tables and rows are gone
RemoveStoreFile(d) ==
    /\ ret = NoCall
    /\ d \in files
    /\ files' = files \ {d}
    /\ IF d = ProjectDir
       THEN /\ tables' = {}
            /\ circuits' = {} /\ drivers' = {} /\ constructors' = {}
            /\ races' = {} /\ race_results' = {} /\ qualifying_results' = {}
            /\ seasons' = {} /\ enhanced' = NoEnhanced
       ELSE UNCHANGED <<store, tables>>
    /\ UNCHANGED <<math_functions, ergast, engine, ret>>

\* a store without the existence check of __init__
StoreAssumed(db_path) == TRUE

\* os.path.exists(self.db_path)
StoreFound(db_path) == db_path \in files

RECURSIVE FindProjectRoot(_)
\* while project_root != '/': break at the first directory, going up, that
\* holds data/f1_database.db
FindProjectRoot(project_root) ==
    IF project_root = 0 THEN 0
    ELSE IF project_root \in files THEN project_root
         ELSE FindProjectRoot(project_root - 1)

\* self.db_path: the path given, or the one found from the module's directory
\* (db_path = NULL stands for db_path=None)
ResolvePath(db_path) ==
    IF db_path = NULL THEN FindProjectRoot(ModuleDir) ELSE db_path

\* analytics = F1Analytics(db_path): the instance, or FileNotFoundError and
\* no instance
Construct(db_path) ==
    LET path == ResolvePath(db_path)
    IN /\ ret = NoCall
       /\ IF StoreFound(path)
          THEN /\ analytics' = [db_path |-> path]
               /\ ret' = [op |-> "__init__", explicit |-> db_path # NULL,
                          db_path |-> path, raised |-> "none"]
          ELSE /\ analytics' = NoEngine
               /\ ret' = [op |-> "__init__", explicit |-> db_path # NULL,
                          db_path |-> path, raised |-> "FileNotFoundError"]
       /\ UNCHANGED <<store, env, calls, leaked>>

NextConstruct ==
    \/ \E d \in Dirs : CreateStoreFile(d)
    \/ \E d \in Dirs : RemoveStoreFile(d)
    \/ \E db_path \in Dirs \cup {NULL} : Construct(db_path)
    \/ Return

SpecConstruct == Init /\ [][NextConstruct]_vars

(***************************************************************************)
(* One call of an analytics operation, statement by statement:             *)
(*     conn = sqlite3.connect(self.db_path)                                *)
(*     df = pd.read_sql_query(query, conn)       (twice for driver metrics)*)
(*     conn.close()                                                        *)
(*     return df                                                           *)
(* pd.read_sql_query raises DatabaseError when SQLite rejects the query;   *)
(* no method has a try, a finally or a with.                               *)
(***************************************************************************)
OpNames ==
    {"get_driver_performance_metrics", "get_constructor_performance",
     "get_race_analysis", "get_head_to_head_comparison",
     "get_championship_progression", "get_circuit_performance"}

\* the driver ids of the head-to-head calls: two known drivers, and a known
\* one against an unknown one
CallDriverPairs == {<<1, 2>>, <<2, 9>>}

\* the calls a session can make
Requests ==
    {[op |-> o, args |-> <<>>] : o \in OpNames \ {"get_head_to_head_comparison"}}
        \cup {[op |-> "get_head_to_head_comparison", args |-> a] : a \in CallDriverPairs}

\* the tables named by the (first) query of an operation
TablesRead(op) ==
    CASE op = "get_driver_performance_metrics" ->
             {"race_results", "drivers", "constructors"}
      [] op = "get_constructor_performance" -> {"constructors", "race_results"}
      [] op = "get_race_analysis" ->
             {"races", "circuits", "race_results", "drivers", "constructors"}
      [] op = "get_head_to_head_comparison" -> {"races", "race_results", "drivers"}
      [] op = "get_championship_progression" -> {"races", "race_results", "drivers"}
      [] op = "get_circuit_performance" ->
             {"circuits", "races", "race_results", "drivers", "constructors"}

\* the tables of the file at db_path: the project's store has the tables of
\* the variable tables, any other file has none
TablesAt(db_path) == IF db_path = ProjectDir /\ db_path \in files THEN tables ELSE {}

\* the values the (first) query of an operation can return; for the
\* head-to-head comparison the pair (df, h2h_stats) made of it
FirstQuery(op, args) ==
    CASE op = "get_driver_performance_metrics" -> DriverQuery
      [] op = "get_constructor_performance" -> ConstructorQuery
      [] op = "get_race_analysis" -> RaceQuery
      [] op = "get_head_to_head_comparison" ->
             {<<df, H2HStats(df)>> : df \in H2HQuery(args[1], args[2])}
      [] op = "get_championship_progression" -> ProgressionQuery
      [] op = "get_circuit_performance" -> CircuitQuery

\* conn = sqlite3.connect(self.db_path): opens the file read-write and
\* creates it when it is not there
Connect(s, req) ==
    /\ calls[s] = Idle
    /\ analytics # NoEngine
    /\ calls' = [calls EXCEPT ![s] =
                    [pc |-> "connected", op |-> req.op, args |-> req.args,
                     db_path |-> analytics.db_path, conn |-> "open", attempts |-> 0]]
    /\ files' = files \cup {analytics.db_path}
    /\ UNCHANGED <<store, tables, math_functions, ergast, analytics, leaked, ret>>

\* a failed query handled by handing back the table read so far
KeepFirstTable(c) ==
    IF c.pc = "fetched_first"
    THEN [pc |-> "fetched", op |-> c.op, args |-> c.args, db_path |-> c.db_path,
          conn |-> c.conn, attempts |-> c.attempts + 1, value |-> c.query_df]
    ELSE [pc |-> "raised", op |-> c.op, args |-> c.args, db_path |-> c.db_path,
          conn |-> c.conn, attempts |-> c.attempts + 1, error |-> "DatabaseError"]

\* pd.read_sql_query raises: the exception leaves the method at once, past
\* conn.close() and return
RaiseDatabaseError(c) ==
    [pc |-> "raised", op |-> c.op, args |-> c.args, db_path |-> c.db_path,
     conn |-> c.conn, attempts |-> c.attempts + 1, error |-> "DatabaseError"]

\* df = pd.read_sql_query(query, conn)
ReadQuery(s) ==
    LET c == calls[s]
    IN /\ c.pc = "connected"
       /\ IF TablesRead(c.op) \subseteq TablesAt(c.db_path)
          THEN \E df \in FirstQuery(c.op, c.args) :
                  calls' = [calls EXCEPT ![s] =
                      IF c.op = "get_driver_performance_metrics"
                      THEN [pc |-> "fetched_first", op |-> c.op, args |-> c.args,
                            db_path |-> c.db_path, conn |-> c.conn,
                            attempts |-> c.attempts + 1, query_df |-> AddRates(df)]
                      ELSE [pc |-> "fetched", op |-> c.op, args |-> c.args,
                            db_path |-> c.db_path, conn |-> c.conn,
                            attempts |-> c.attempts + 1, value |-> df]]
          ELSE calls' = [calls EXCEPT ![s] = RaiseDatabaseError(c)]
       /\ UNCHANGED <<store, env, analytics, leaked, ret>>

\* a second query whose rows are not merged: the first table is handed back
ReadConsistencySkipped(s) ==
    LET c == calls[s]
    IN /\ c.pc = "fetched_first"
       /\ calls' = [calls EXCEPT ![s] =
                       [pc |-> "fetched", op |-> c.op, args |-> c.args,
                        db_path |-> c.db_path, conn |-> c.conn,
                        attempts |-> c.attempts + 1, value |-> c.query_df]]
       /\ UNCHANGED <<store, env, analytics, leaked, ret>>
\* consistency_df = pd.read_sql_query(consistency_query, conn) and the merge;
\* the query names race_results and calls SQRT
ReadConsistency(s) ==
    LET c == calls[s]
    IN /\ c.pc = "fetched_first"
       /\ IF "race_results" \in TablesAt(c.db_path) /\ math_functions
          THEN \E consistency_df \in ConsistencyQuery :
                  calls' = [calls EXCEPT ![s] =
                      [pc |-> "fetched", op |-> c.op, args |-> c.args,
                       db_path |-> c.db_path, conn |-> c.conn,
                       attempts |-> c.attempts + 1,
                       value |-> MergeLeft(c.query_df, consistency_df)]]
          ELSE calls' = [calls EXCEPT ![s] = RaiseDatabaseError(c)]
       /\ UNCHANGED <<store, env, analytics, leaked, ret>>

\* conn.close(); return
Close(s) ==
    LET c == calls[s]
    IN /\ c.pc = "fetched"
       /\ calls' = [calls EXCEPT ![s] =
                       [pc |-> "returned", op |-> c.op, args |-> c.args,
                        db_path |-> c.db_path, conn |-> "closed",
                        attempts |-> c.attempts, value |-> c.value]]
       /\ UNCHANGED <<store, env, analytics, leaked, ret>>

\* connections that ended calls may leave open
MaxLeaked == 1

\* the rows an enhanced table is let grow to
MaxEnhancedRows == 2

\* the caller has the value or the exception, the call is over; a connection
\* that is still open stays open, nothing refers to it any more
Finish(s) ==
    LET c == calls[s]
    IN /\ c.pc \in {"returned", "raised"}
       /\ c.conn = "open" => leaked < MaxLeaked
       /\ calls' = [calls EXCEPT ![s] = Idle]
       /\ leaked' = IF c.conn = "open" THEN leaked + 1 ELSE leaked
       /\ UNCHANGED <<store, env, analytics, ret>>

\* the interpreter frees an unreferenced Connection object at some time,
\* which closes it
Collect ==
    /\ leaked > 0
    /\ leaked' = leaked - 1
    /\ UNCHANGED <<store, env, analytics, calls, ret>>

NoCallInProgress == \A s \in Sessions : calls[s] = Idle

\* the connections open at this moment
OpenConnections ==
    leaked + Cardinality({s \in Sessions : calls[s] # Idle /\ calls[s].conn = "open"})

(***************************************************************************)
(* Construction: properties                                                *)
(***************************************************************************)
IsInitCall == ret.op = "__init__"

\* C16: constructing F1Analytics on a path, given or found by the walk, at
\* which no store file exists raises FileNotFoundError and leaves no
\* instance (and it raises only then); nothing is connected to or created
\* by the attempt, and without an instance no session can start an
\* operation, so no connection is opened.
C16_StoreNotFoundFailsFast ==
    /\ IsInitCall =>
          /\ (ret.db_path \notin files) <=> (ret.raised = "FileNotFoundError")
          /\ (ret.db_path \notin files) =>
                /\ analytics = NoEngine
                /\ OpenConnections = 0
          /\ (ret.db_path \in files) => analytics = [db_path |-> ret.db_path]
    /\ (analytics = NoEngine) =>
          \A s \in Sessions, req \in Requests : ~ENABLED Connect(s, req)

\* no directory holds a store file: the walk from the module's directory
\* ends at the root and the construction fails
C16_Witness ==
    /\ IsInitCall
    /\ ~ret.explicit
    /\ ret.db_path = 0
    /\ files = {}
    /\ ret.raised = "FileNotFoundError"
    /\ analytics = NoEngine

(***************************************************************************)
(* Calls on stores that lack tables, a file or the math functions          *)
(***************************************************************************)
\* driver_teams: the constructor of each driver in the sample data
driver_teams == [d \in DriverIds |-> d]

\* points_system[position - 1], cut down to the winner's point
points_system(position) == IF position = 1 THEN 1 ELSE 0

\* races_data: the races of one season
SampleRaces == {r \in RaceCatalog : r.year = 2023}

\* random.shuffle(drivers_list) for every race: a finishing order per race
Shuffles ==
    [{r.race_id : r \in SampleRaces} -> SortsBy(DriverIds, [d \in DriverIds |-> 0])]

\* a seeding that writes the winner's row of every race only
SampleWinners(shuffle) ==
    { [race_id |-> r, driver_id |-> shuffle[r][1],
       constructor_id |-> driver_teams[shuffle[r][1]],
       position |-> 1, points |-> points_system(1)] : r \in DOMAIN shuffle }
\* the result rows of one shuffle: position by enumerate(drivers_list, 1)
SampleResults(shuffle) ==
    { [race_id |-> r, driver_id |-> shuffle[r][position],
       constructor_id |-> driver_teams[shuffle[r][position]],
       position |-> position, points |-> points_system(position)] :
         r \in DOMAIN shuffle, position \in 1..Cardinality(DriverIds) }

\* INSERT OR REPLACE INTO race_results of the rows of one shuffle: the rows
\* with the race and the driver of a new row go
SeedResults(table, shuffle) ==
    {x \in table :
        \A y \in SampleResults(shuffle) :
            ~(x.race_id = y.race_id /\ x.driver_id = y.driver_id)}
        \cup SampleResults(shuffle)

\* the statements of create_sample_data(): every INSERT OR REPLACE
SeedRows ==
    /\ ret = NoCall
    /\ ProjectDir \in files
    /\ {"circuits", "drivers", "constructors", "seasons", "races", "race_results"}
          \subseteq tables
    /\ circuits' = SaveAll(circuits, CircuitCatalog, "circuits")
    /\ drivers' = SaveAll(drivers, DriverCatalog, "drivers")
    /\ constructors' = SaveAll(constructors, ConstructorCatalog, "constructors")
    /\ seasons' = seasons \cup {[year |-> y] : y \in Years}
    /\ races' = SaveAll(races, SampleRaces, "races")
    /\ \E shuffle \in Shuffles :
          race_results' = SeedResults(race_results, shuffle)

\* create_sample_data(): every INSERT OR REPLACE, then one commit
SeedSampleData ==
    /\ SeedRows
    /\ UNCHANGED <<qualifying_results, enhanced, env, engine, ret>>

\* the store comes to lack table t (a store made with another schema)
DropTable(t) ==
    /\ ret = NoCall
    /\ ProjectDir \in files
    /\ t \in tables
    /\ tables' = tables \ {t}
    /\ circuits' = IF t = "circuits" THEN {} ELSE circuits
    /\ drivers' = IF t = "drivers" THEN {} ELSE drivers
    /\ constructors' = IF t = "constructors" THEN {} ELSE constructors
    /\ races' = IF t = "races" THEN {} ELSE races
    /\ race_results' = IF t = "race_results" THEN {} ELSE race_results
    /\ qualifying_results' = IF t = "qualifying_results" THEN {} ELSE qualifying_results
    /\ seasons' = IF t = "seasons" THEN {} ELSE seasons
    /\ UNCHANGED <<enhanced, files, math_functions, ergast, engine, ret>>

\* as Init, with an SQLite library that has the math functions or has not
InitCalls ==
    /\ circuits = {}
    /\ drivers = {}
    /\ constructors = {}
    /\ races = {}
    /\ race_results = {}
    /\ qualifying_results = {}
    /\ seasons = {}
    /\ enhanced = NoEnhanced
    /\ ret = NoCall
    /\ files = {ProjectDir}
    /\ tables = TableNames
    /\ math_functions \in BOOLEAN
    /\ ergast = NotCollecting
    /\ analytics = [db_path |-> ProjectDir]
    /\ calls = [s \in Sessions |-> Idle]
    /\ leaked = 0

\* one session calls; the store changes between calls only
NextCalls ==
    \/ NoCallInProgress /\ SeedSampleData
    \/ NoCallInProgress /\ \E t \in TableNames : DropTable(t)
    \/ NoCallInProgress /\ RemoveStoreFile(ProjectDir)
    \/ \E req \in Requests : Connect(1, req)
    \/ ReadQuery(1)
    \/ ReadConsistency(1)
    \/ Close(1)
    \/ Finish(1)
    \/ Collect

SpecCalls == InitCalls /\ [][NextCalls]_vars

(***************************************************************************)
(* Failing calls, writes and connections: properties                       *)
(***************************************************************************)
\* the number of queries of an operation
QueriesOf(op) == IF op = "get_driver_performance_metrics" THEN 2 ELSE 1

\* every query of the operation can run on the store of the call
StoreServes(c) ==
    /\ TablesRead(c.op) \subseteq TablesAt(c.db_path)
    /\ (c.op = "get_driver_performance_metrics") => math_functions

\* the call has a table to return
HasValue(c) == c.pc \in {"fetched", "returned"}

C18_NoWrites ==
    [][(calls' # calls) => (store' = store /\ tables' = tables /\ files' = files)]_vars

\* C19 (as claimed): when a call has ended, by return or by exception, its
\* connection is closed, and with no call in progress no connection is open.
C19_ConnectionClosedWhenCallEnds ==
    /\ \A s \in Sessions :
          (calls[s].pc \in {"returned", "raised"}) => calls[s].conn = "closed"
    /\ NoCallInProgress => OpenConnections = 0

(***************************************************************************)
(* Calls of several sessions on one store                                  *)
(***************************************************************************)
\* a writer that runs at any time, also between the statements of a call
WriterRunsAnytime == TRUE

\* the collectors and the seeding script are not run while a call is in
\* progress
WriterMayRun == NoCallInProgress

\* the statements of the calls of all sessions interleave in any order
NextSessions ==
    \/ WriterMayRun /\ SeedSampleData
    \/ \E s \in Sessions, req \in Requests : Connect(s, req)
    \/ \E s \in Sessions : ReadQuery(s)
    \/ \E s \in Sessions : ReadConsistency(s)
    \/ \E s \in Sessions : Close(s)
    \/ \E s \in Sessions : Finish(s)

SpecSessions == Init /\ [][NextSessions]_vars

(***************************************************************************)
(* The comparison called in both directions: a session compares (A, B),    *)
(* and while it holds its result another session compares (B, A)           *)
(***************************************************************************)
\* the pairs compared first: both known, the same driver twice, one unknown
SymmetryPairs == {<<1, 2>>, <<2, 1>>, <<1, 1>>, <<2, 9>>, <<9, 2>>}

H2HRequest(pair) == [op |-> "get_head_to_head_comparison", args |-> pair]

Reverse(pair) == <<pair[2], pair[1]>>

NextSymmetry ==
    \/ NoCallInProgress /\ SaveCircuits
    \/ NoCallInProgress /\ SaveDrivers
    \/ NoCallInProgress /\ SaveConstructors
    \/ NoCallInProgress /\ SaveRaces(2023)
    \/ NoCallInProgress /\
          \E r \in H2HRaceIds, d \in DriverIds, p \in H2HPositionValues :
              SaveResult(r, d, p, IF p = 1 THEN 1 ELSE 0)
    \/ \E pair \in SymmetryPairs : Connect(1, H2HRequest(pair))
    \/ calls[1].pc = "fetched" /\ Connect(2, H2HRequest(Reverse(calls[1].args)))
    \/ \E s \in Sessions : ReadQuery(s)
    \/ \E s \in Sessions : Close(s)
    \/ \E s \in Sessions : Finish(s)

SpecSymmetry == Init /\ [][NextSymmetry]_vars

\* the races a comparison table lists
RacesListed(df) == {<<df[i].race_name, df[i].date>> : i \in 1..Len(df)}

\* the winner flag seen from the other driver
OtherWinner(flag) == CASE flag = 1 -> 2 [] flag = 2 -> 1 [] OTHER -> flag

\* C27: when one call has returned (df, stats) for (A, B) and another one
\* (df', stats') for (B, A) on the same store, the two tables list the same
\* races, once each; the summaries are both empty or have the same
\* total_races and ties and exchanged driver1_wins and driver2_wins; and the
\* rows of a race have exchanged winner flags.
C27_HeadToHeadSymmetric ==
    \A s \in Sessions, t \in Sessions :
        (/\ s # t
         /\ HasValue(calls[s]) /\ HasValue(calls[t])
         /\ calls[t].args = Reverse(calls[s].args)) =>
            LET df1 == calls[s].value[1]
                df2 == calls[t].value[1]
                stats1 == calls[s].value[2]
                stats2 == calls[t].value[2]
            IN /\ RacesListed(df1) = RacesListed(df2)
               /\ Len(df1) = Len(df2)
               /\ Len(df1) = Cardinality(RacesListed(df1))
               /\ (stats1 = EmptyStats) <=> (stats2 = EmptyStats)
               /\ (stats1 # EmptyStats) =>
                     /\ stats1.total_races = stats2.total_races
                     /\ stats1.ties = stats2.ties
                     /\ stats1.driver1_wins = stats2.driver2_wins
                     /\ stats1.driver2_wins = stats2.driver1_wins
               /\ \A i \in 1..Len(df1), j \in 1..Len(df2) :
                     (df1[i].race_name = df2[j].race_name /\ df1[i].date = df2[j].date)
                         => df2[j].winner = OtherWinner(df1[i].winner)

\* both directions have returned for two different drivers who share two
\* races: one won by the first driver, one tied
C27_Witness ==
    /\ HasValue(calls[1]) /\ HasValue(calls[2])
    /\ calls[1].args = <<1, 2>>
    /\ calls[2].args = <<2, 1>>
    /\ Len(calls[1].value[1]) = 2
    /\ calls[1].value[2].driver1_wins = 1
    /\ calls[1].value[2].ties = 1
    /\ calls[2].value[2].driver2_wins = 1
    /\ calls[2].value[2].ties = 1

\* the values an operation can return when it runs alone on the store as it
\* is now
AloneValues(op, args) ==
    IF op = "get_driver_performance_metrics"
    THEN {MergeLeft(AddRates(query_df), consistency_df) :
             query_df \in DriverQuery, consistency_df \in ConsistencyQuery}
    ELSE FirstQuery(op, args)

\* C20: with no writer running, whatever the other sessions do and whatever
\* was called before, the value a call has to return is one the operation
\* returns when run alone on the store, a call between its two queries
\* holds rows of that store, and no call fails on a store that serves it.
C20_SameResultAsAlone ==
    \A s \in Sessions :
        LET c == calls[s]
        IN /\ HasValue(c) => c.value \in AloneValues(c.op, c.args)
           /\ (c.pc = "fetched_first") =>
                 c.query_df \in {AddRates(query_df) : query_df \in DriverQuery}
           /\ c.pc # "raised"

\* two calls in progress at once on a seeded store: one session is between
\* the two queries of the driver metrics, the other has the race analysis
\* to return, one row per race
C20_Witness ==
    /\ race_results # {}
    /\ \E s \in Sessions, t \in Sessions :
          /\ calls[s].pc = "fetched_first"
          /\ calls[t].pc = "fetched"
          /\ calls[t].op = "get_race_analysis"
          /\ Len(calls[t].value) = Cardinality(races)


(***************************************************************************)
(* The dashboard's head-to-head page (show_head_to_head): the two drivers  *)
(* are chosen by name among the rows of the driver metrics; the page keeps *)
(* no state, ret holds what one run of the page did                        *)
(***************************************************************************)
\* driver_df['driver_name'].tolist(): the options of both select boxes
DriverOptions(driver_df) == [i \in 1..Len(driver_df) |-> driver_df[i].driver_name]

\* driver_df[driver_df['driver_name'] == name]['driver_id'].iloc[0]
FirstIdByName(driver_df, name) ==
    driver_df[Min({i \in 1..Len(driver_df) : driver_df[i].driver_name = name})].driver_id

\* the fields the page shows: four metrics and the comparison table
SummaryFields ==
    {"total_races", "driver1_wins", "driver2_wins", "ties",
     "driver1_avg_position", "driver2_avg_position",
     "driver1_total_points", "driver2_total_points"}

\* a test that reads total_races without asking whether the dict is empty
SummaryTestUnguarded(h2h_stats) ==
    IF "total_races" \in DOMAIN h2h_stats
    THEN [reads |-> {"total_races"}, shown |-> h2h_stats.total_races > 0,
          raised |-> "none"]
    ELSE [reads |-> {"total_races"}, shown |-> FALSE, raised |-> "KeyError"]

\* if h2h_stats and h2h_stats['total_races'] > 0: an empty dict is false and
\* the right operand is not evaluated
SummaryTest(h2h_stats) ==
    IF h2h_stats = EmptyStats
    THEN [reads |-> {}, shown |-> FALSE, raised |-> "none"]
    ELSE [reads |-> {"total_races"}, shown |-> h2h_stats.total_races > 0,
          raised |-> "none"]

\* what a run of the page did
PageRun(driver1_id, driver2_id, called, h2h_stats, reads, warning, raised) ==
    [op |-> "show_head_to_head", driver1_id |-> driver1_id,
     driver2_id |-> driver2_id, called |-> called, h2h_stats |-> h2h_stats,
     reads |-> reads, warning |-> warning, raised |-> raised]

\* one run of the page with the options i and j selected.  The select boxes
\* start at the options 0 and 1: with fewer than two rows the page stops
\* with an exception before any comparison
ShowHeadToHead ==
    /\ ret = NoCall
    /\ \E query_df \in DriverQuery, consistency_df \in ConsistencyQuery :
          LET driver_df == MergeLeft(AddRates(query_df), consistency_df)
              options == DriverOptions(driver_df)
          IN IF Len(driver_df) < 2
             THEN ret' = PageRun(NULL, NULL, FALSE, EmptyStats, {}, FALSE, "IndexError")
             ELSE \E i \in 1..Len(options), j \in 1..Len(options) :
                    LET driver1 == options[i]
                        driver2 == options[j]
                        driver1_id == FirstIdByName(driver_df, driver1)
                        driver2_id == FirstIdByName(driver_df, driver2)
                    IN IF driver1 # driver2
                       THEN \E h2h_df \in H2HQuery(driver1_id, driver2_id) :
                               LET h2h_stats == H2HStats(h2h_df)
                                   test == SummaryTest(h2h_stats)
                               IN ret' = PageRun(driver1_id, driver2_id, TRUE, h2h_stats,
                                             test.reads \cup
                                                 (IF test.shown THEN SummaryFields ELSE {}),
                                             ~test.shown /\ test.raised = "none",
                                             test.raised)
                       ELSE ret' = PageRun(driver1_id, driver2_id, FALSE, EmptyStats,
                                           {}, FALSE, "none")
    /\ UNCHANGED <<store, env, engine>>

NextDashboard ==
    \/ SaveCircuits
    \/ SaveDrivers
    \/ SaveConstructors
    \/ SaveRaces(2023)
    \/ \E r \in H2HRaceIds, d \in DriverIds, p \in H2HPositionValues :
          SaveResult(r, d, p, IF p = 1 THEN 1 ELSE 0)
    \/ ShowHeadToHead
    \/ Return

SpecDashboard == Init /\ [][NextDashboard]_vars

IsPageRun == ret.op = "show_head_to_head"

\* C25: the page reads a summary field only after a comparison whose summary
\* is not empty, and then only fields the summary has; it compares only two
\* different drivers; and after a comparison with an empty summary it has
\* shown the warning, read no field and raised nothing.
C25_SummaryReadOnlyWhenPresent ==
    IsPageRun =>
        /\ (ret.reads # {}) =>
              /\ ret.called
              /\ ret.h2h_stats # EmptyStats
              /\ ret.reads \subseteq DOMAIN ret.h2h_stats
        /\ ret.called => ret.driver1_id # ret.driver2_id
        /\ (ret.called /\ ret.h2h_stats = EmptyStats) =>
              /\ ret.warning
              /\ ret.reads = {}
              /\ ret.raised = "none"
        /\ (ret.called /\ ret.h2h_stats # EmptyStats) =>
              /\ ~ret.warning
              /\ ret.reads = SummaryFields

\* two drivers are listed and differ, and they share no race: the
\* comparison was made, its summary is empty, the warning is shown
C25_Witness ==
    /\ IsPageRun
    /\ ret.called
    /\ ret.h2h_stats = EmptyStats
    /\ ret.warning
    /\ Cardinality(race_results) >= 2

(***************************************************************************)
(* A writer that commits while a call is in progress.  The two queries of  *)
(* get_driver_performance_metrics are two statements on a connection in    *)
(* autocommit mode: each reads the rows committed when it runs             *)
(***************************************************************************)
\* the seeding script commits while calls are in progress; a call that is
\* between its two queries is marked: its connection has seen a commit
CommitDuringCall ==
    /\ ~NoCallInProgress
    /\ SeedRows
    /\ calls' = [s \in Sessions |->
                    IF calls[s].pc = "fetched_first"
                    THEN calls[s] @@ [overlapped |-> TRUE]
                    ELSE calls[s]]
    /\ UNCHANGED <<qualifying_results, enhanced, env, analytics, leaked, ret>>

DriverMetricsRequest == [op |-> "get_driver_performance_metrics", args |-> <<>>]

NextWriters ==
    \/ NoCallInProgress /\ SeedSampleData
    \/ CommitDuringCall
    \/ \E s \in Sessions : Connect(s, DriverMetricsRequest)
    \/ \E s \in Sessions : ReadQuery(s)
    \/ \E s \in Sessions : ReadConsistency(s)
    \/ \E s \in Sessions : Close(s)
    \/ \E s \in Sessions : Finish(s)

SpecWriters == Init /\ [][NextWriters]_vars

\* session s runs its second query in this step and gets its rows
SecondQueryReturns(s) == calls[s].pc = "fetched_first" /\ calls'[s].pc = "fetched"

\* the rows of the tables the driver metrics return on the store as it is
AloneRows(op, args) ==
    UNION { {t[i] : i \in 1..Len(t)} : t \in AloneValues(op, args) }

\* C26 (as claimed): when the second query returns, every row of the call's
\* table describes one set of race results, the one the second query reads:
\* it is a row the operation returns on the store as it is, also when a
\* writer has committed since the first query.
C26_RowsFromSingleState ==
    [][\A s \in Sessions :
          SecondQueryReturns(s) =>
              \A i \in 1..Len(calls'[s].value) :
                  calls'[s].value[i] \in AloneRows(calls[s].op, calls[s].args)]_vars

\* C26 (amended): the same, for a call whose connection has seen no commit
\* between its two queries.
C26_RowsFromSingleStateWithoutCommit ==
    [][\A s \in Sessions :
          (SecondQueryReturns(s) /\ "overlapped" \notin DOMAIN calls[s]) =>
              /\ calls'[s].value \in AloneValues(calls[s].op, calls[s].args)
              /\ \A i \in 1..Len(calls'[s].value) :
                    calls'[s].value[i] \in AloneRows(calls[s].op, calls[s].args)]_vars

\* a call has its table, another one is between its two queries and has
\* seen a commit
C26_Witness ==
    \E s \in Sessions, t \in Sessions :
        /\ calls[s].pc = "fetched"
        /\ Len(calls[s].value) = Cardinality(DriverIds)
        /\ calls[t].pc = "fetched_first"
        /\ "overlapped" \in DOMAIN calls[t]

(***************************************************************************)
(* The Ergast collector (ergast_api.py).  The API's ids are texts          *)
(* ('hamilton', 'mercedes', '2024_1'); the id columns are INTEGER.  In an  *)
(* INTEGER column SQLite stores a text made of digits as the integer and   *)
(* any other text as it is; an INTEGER PRIMARY KEY column takes integers   *)
(* only (datatype mismatch).  Foreign keys are not enforced (the           *)
(* foreign_keys pragma is off).                                            *)
(* A value v < TextBase is the integer v, Text(k) is a text that is not a  *)
(* number and Digits(n) the text made of the digits of n.                  *)
(***************************************************************************)
TextBase == 100

Text(k) == TextBase + k

Digits(n) == 2 * TextBase + n

\* the value an INTEGER column stores for v
IntegerAffinity(v) == IF v >= 2 * TextBase THEN v - 2 * TextBase ELSE v

IsInteger(v) == v < TextBase

\* race_id = f"{year}_{round}"
RaceText(year, round) == Text(10 * (year - 2022) + round)

\* the rows of a table of the store, by its name
TableRows(table_name) ==
    CASE table_name = "circuits" -> circuits
      [] table_name = "drivers" -> drivers
      [] table_name = "constructors" -> constructors
      [] table_name = "seasons" -> seasons
      [] table_name = "races" -> races
      [] table_name = "race_results" -> race_results

\* the INTEGER PRIMARY KEY column of a table that has one among the columns
\* the collector names (result_id of race_results is generated)
PrimaryKey(table_name) ==
    CASE table_name = "circuits" -> "circuit_id"
      [] table_name = "drivers" -> "driver_id"
      [] table_name = "constructors" -> "constructor_id"
      [] table_name = "seasons" -> "year"
      [] table_name = "races" -> "race_id"
      [] table_name = "race_results" -> "none"

\* SQLite rejects the record: its primary key is not an integer
Rejected(table_name, record) ==
    /\ PrimaryKey(table_name) # "none"
    /\ ~IsInteger(IntegerAffinity(record[PrimaryKey(table_name)]))

\* the row the table stores for a record: the id columns with INTEGER affinity
StoredRow(table_name, record) ==
    [c \in DOMAIN record |->
        IF c \in {"circuit_id", "driver_id", "constructor_id", "race_id"}
        THEN IntegerAffinity(record[c]) ELSE record[c]]

\* INSERT OR REPLACE INTO table_name of one row
InsertOrReplace(table_name, table, row) ==
    CASE table_name = "circuits" -> InsertOrReplaceCircuit(table, row)
      [] table_name = "drivers" -> InsertOrReplaceDriver(table, row)
      [] table_name = "constructors" -> InsertOrReplaceConstructor(table, row)
      [] table_name = "seasons" -> {x \in table : x.year # row.year} \cup {row}
      [] table_name = "races" -> InsertOrReplaceRace(table, row)
      [] table_name = "race_results" -> InsertOrReplaceResult(table, row)

RECURSIVE ExecuteMany(_, _, _)
\* cursor.executemany(INSERT OR REPLACE ..., values): the records in order,
\* inside one transaction, up to the first one SQLite rejects
ExecuteMany(table_name, table, values) ==
    IF values = <<>> THEN [rows |-> table, error |-> FALSE]
    ELSE IF Rejected(table_name, Head(values))
         THEN [rows |-> table, error |-> TRUE]
         ELSE ExecuteMany(table_name,
                          InsertOrReplace(table_name, table,
                                          StoredRow(table_name, Head(values))),
                          Tail(values))

\* an except branch that commits what the transaction holds
KeepPending(before, pending) == pending

\* except sqlite3.Error: no commit; conn.close() in the finally drops the
\* open transaction
Rollback(before, pending) == before

\* a save that connects whatever the data is
NeverSkips(data) == FALSE

\* if not data: return
SkipsEmpty(data) == data = <<>>

\* save_to_database(table_name, data) on a table: the rows of the table
\* afterwards, whether a connection was opened and how it was left, and
\* what happened
SaveRows(table_name, table, data) ==
    IF SkipsEmpty(data)
    THEN [rows |-> table, conn |-> "none", saved |-> "nothing"]
    ELSE IF data = <<>>
    THEN \* data[0] of an empty list raises, after the connect and before the try
         [rows |-> table, conn |-> "open", saved |-> "IndexError"]
    ELSE IF table_name \notin TablesAt(ProjectDir)
    THEN [rows |-> table, conn |-> "closed", saved |-> "error"]
    ELSE LET r == ExecuteMany(table_name, table, data)
         IN IF r.error
            THEN [rows |-> Rollback(table, r.rows),
                  conn |-> "closed", saved |-> "error"]
            ELSE [rows |-> r.rows, conn |-> "closed", saved |-> "all"]

\* save_to_database(table_name, data) on the store
SaveToDatabase(table_name, data) ==
    SaveRows(table_name, TableRows(table_name), data)

(***************************************************************************)
(* What the API serves.  A request fails (_make_request returns None) or   *)
(* returns one of the lists below.                                         *)
(***************************************************************************)
ApiCircuits ==
    { <<[circuit_id |-> Text(3), name |-> "Bahrain International Circuit",
         country |-> "Bahrain"]>> }

\* one driver; a driver whose id is made of digits before him; two such drivers
ApiDrivers ==
    { <<[driver_id |-> Text(1), forename |-> "Lewis", surname |-> "Hamilton"]>>,
      <<[driver_id |-> Digits(1), forename |-> "Max", surname |-> "Verstappen"],
        [driver_id |-> Text(1), forename |-> "Lewis", surname |-> "Hamilton"]>>,
      <<[driver_id |-> Digits(1), forename |-> "Max", surname |-> "Verstappen"],
        [driver_id |-> Digits(2), forename |-> "Charles", surname |-> "Leclerc"]>> }

ApiConstructors ==
    { <<[constructor_id |-> Text(2), name |-> "Mercedes"]>>,
      <<[constructor_id |-> Digits(1), name |-> "Red Bull"]>> }

\* the seasons of the API, one of them before start_year
ApiSeasonYears == <<2019, 2023, 2024>>

\* get_seasons(2020, 2024): the seasons with start_year <= year <= end_year
GetSeasons ==
    LET kept == SelectSeq(ApiSeasonYears, LAMBDA y : 2020 <= y /\ y <= 2024)
    IN [k \in 1..Len(kept) |-> [year |-> kept[k]]]

\* get_races_for_season(year): the races of the year in the order of rounds
ApiRaces(year) ==
    LET of_year == {r \in RaceCatalog : r.year = year}
        sorted == CHOOSE q \in SortsBy(of_year, [r \in of_year |-> r.round]) : TRUE
    IN [k \in 1..Len(sorted) |->
           [race_id |-> RaceText(year, sorted[k].round), year |-> year,
            round |-> sorted[k].round, circuit_id |-> Text(3),
            name |-> sorted[k].name, date |-> sorted[k].date]]

\* get_race_results(year, round_num): the winner; or a classified driver
\* whose ids are made of digits and a driver without classification
ApiResults(year, round_num) ==
    { <<[race_id |-> RaceText(year, round_num), driver_id |-> Text(1),
         constructor_id |-> Text(2), position |-> 1, points |-> 1]>>,
      <<[race_id |-> RaceText(year, round_num), driver_id |-> Digits(1),
         constructor_id |-> Digits(1), position |-> 1, points |-> 1],
        [race_id |-> RaceText(year, round_num), driver_id |-> Text(1),
         constructor_id |-> Text(2), position |-> NULL, points |-> 0]>> }

(***************************************************************************)
(* ergast_api.main(), one request or one save per step.  ergast holds the  *)
(* local variables of main: the list in hand (data), seasons, races, the   *)
(* positions i and j of the two loops, and what the last save did.         *)
(***************************************************************************)
\* seasons[-2:]
LastTwo(list) == SubSeq(list, Max({1, Len(list) - 1}), Len(list))

\* races[:3]
FirstThree(list) == SubSeq(list, 1, Min({3, Len(list)}))

\* the table each save of main names
SavedTable(pc) ==
    CASE pc = "save_circuits" -> "circuits"
      [] pc = "save_drivers" -> "drivers"
      [] pc = "save_constructors" -> "constructors"
      [] pc = "save_seasons" -> "seasons"
      [] pc = "save_races" -> "races"
      [] pc = "save_results" -> "race_results"

ErgastStart ==
    /\ ergast.pc \in {"idle", "done"}
    /\ ergast' = [pc |-> "get_circuits", data |-> <<>>, seasons |-> <<>>,
                  races |-> <<>>, i |-> 0, j |-> 0,
                  conn |-> "none", saved |-> "nothing"]
    /\ UNCHANGED <<store, files, tables, math_functions, engine, ret>>

\* the lists a get_* method can return where main stands; the empty list
\* when the request fails or the API has nothing
Fetched(e) ==
    {<<>>} \cup
    CASE e.pc = "get_circuits" -> ApiCircuits
      [] e.pc = "get_drivers" -> ApiDrivers
      [] e.pc = "get_constructors" -> ApiConstructors
      [] e.pc = "get_seasons" -> {GetSeasons}
      [] e.pc = "get_races" -> {ApiRaces(LastTwo(e.seasons)[e.i].year)}
      [] e.pc = "get_results" ->
             ApiResults(LastTwo(e.seasons)[e.i].year, FirstThree(e.races)[e.j].round)

\* x = client.get_...(): one request
ErgastFetch ==
    /\ ergast.pc \in {"get_circuits", "get_drivers", "get_constructors",
                      "get_seasons", "get_races", "get_results"}
    /\ \E data \in Fetched(ergast) :
          ergast' = [ergast EXCEPT
                        !.data = data,
                        !.seasons = IF ergast.pc = "get_seasons" THEN data ELSE @,
                        !.races = IF ergast.pc = "get_races" THEN data ELSE @,
                        !.pc = CASE ergast.pc = "get_circuits" -> "save_circuits"
                                 [] ergast.pc = "get_drivers" -> "save_drivers"
                                 [] ergast.pc = "get_constructors" -> "save_constructors"
                                 [] ergast.pc = "get_seasons" -> "save_seasons"
                                 [] ergast.pc = "get_races" -> "save_races"
                                 [] ergast.pc = "get_results" -> "save_results"]
    /\ UNCHANGED <<store, files, tables, math_functions, engine, ret>>

\* where main goes on after the next season's turn comes
NextSeason(e) ==
    IF e.i < Len(LastTwo(e.seasons))
    THEN [e EXCEPT !.pc = "get_races", !.i = e.i + 1, !.j = 0]
    ELSE [e EXCEPT !.pc = "done"]

\* where main goes on after a save
AfterSave(e) ==
    CASE e.pc = "save_circuits" -> [e EXCEPT !.pc = "get_drivers"]
      [] e.pc = "save_drivers" -> [e EXCEPT !.pc = "get_constructors"]
      [] e.pc = "save_constructors" -> [e EXCEPT !.pc = "get_seasons"]
      [] e.pc = "save_seasons" -> NextSeason([e EXCEPT !.i = 0])
      [] e.pc = "save_races" ->
             IF FirstThree(e.races) = <<>> THEN NextSeason(e)
             ELSE [e EXCEPT !.pc = "get_results", !.j = 1]
      [] e.pc = "save_results" ->
             IF e.j < Len(FirstThree(e.races))
             THEN [e EXCEPT !.pc = "get_results", !.j = e.j + 1]
             ELSE NextSeason(e)

\* client.save_to_database(table, x); for the results under `if results:`
ErgastSave ==
    /\ ergast.pc \in {"save_circuits", "save_drivers", "save_constructors",
                      "save_seasons", "save_races", "save_results"}
    /\ LET t == SavedTable(ergast.pc)
           out == IF ergast.pc = "save_results" /\ ergast.data = <<>>
                  THEN [rows |-> race_results, conn |-> "none", saved |-> "nothing"]
                  ELSE SaveToDatabase(t, ergast.data)
           e == [ergast EXCEPT !.conn = out.conn, !.saved = out.saved]
       IN /\ ergast' = IF out.saved = "IndexError"
                       THEN [e EXCEPT !.pc = "done"]
                       ELSE AfterSave(e)
          /\ circuits' = IF t = "circuits" THEN out.rows ELSE circuits
          /\ drivers' = IF t = "drivers" THEN out.rows ELSE drivers
          /\ constructors' = IF t = "constructors" THEN out.rows ELSE constructors
          /\ seasons' = IF t = "seasons" THEN out.rows ELSE seasons
          /\ races' = IF t = "races" THEN out.rows ELSE races
          /\ race_results' = IF t = "race_results" THEN out.rows ELSE race_results
          /\ files' = IF out.conn = "none" THEN files ELSE files \cup {ProjectDir}
    /\ UNCHANGED <<qualifying_results, enhanced, tables, math_functions, engine, ret>>

\* the collection runs, once or again; the seeding script runs at any time
NextErgast ==
    \/ ErgastStart
    \/ ErgastFetch
    \/ ErgastSave
    \/ SeedSampleData

SpecErgast == Init /\ [][NextErgast]_vars

(***************************************************************************)
(* The Ergast collector and the seeding script: properties                 *)
(***************************************************************************)
SavePcs ==
    {"save_circuits", "save_drivers", "save_constructors", "save_seasons",
     "save_races", "save_results"}

\* main takes the step that follows a save_* position
SaveStep == ergast.pc \in SavePcs /\ ergast' # ergast

\* C22 (as claimed): when a run of main has ended, every race_results row
\* refers to a race, a driver and a constructor that are in the store.
C22_ResultsReferToSavedRows ==
    (ergast.pc = "done") =>
        \A rr \in race_results :
            /\ \E r \in races : r.race_id = rr.race_id
            /\ \E d \in drivers : d.driver_id = rr.driver_id
            /\ \E c \in constructors : c.constructor_id = rr.constructor_id

\* C23: the store never holds two race_results rows with the same race_id
\* and driver_id, whatever the collector and the seeding script have saved.
C23_OneResultPerRaceAndDriver ==
    \A a \in race_results, b \in race_results :
        (a.race_id = b.race_id /\ a.driver_id = b.driver_id) => a = b

\* the collector has just saved the two results of a race, one of them for
\* a driver whose row of that race an earlier run has saved as the winner's;
\* the seeded rows are in the table as well
C23_Witness ==
    /\ ergast.pc # "idle"
    /\ ergast.saved = "all"
    /\ ergast.pc \in {"get_results", "get_races", "done"}
    /\ Len(ergast.data) = 2
    /\ "race_id" \in DOMAIN ergast.data[2]
    /\ "driver_id" \in DOMAIN ergast.data[2]
    /\ \E rr \in race_results :
          /\ rr.race_id = ergast.data[2].race_id
          /\ rr.driver_id = Text(1)
          /\ rr.position = NULL
    /\ \E rr \in race_results :
          /\ rr.race_id # ergast.data[2].race_id
          /\ rr.driver_id = Text(1)
          /\ rr.position = 1
    /\ \E rr \in race_results : IsInteger(rr.race_id)

\* C28: a save step of main with the empty list in hand (the request has
\* failed) opens no connection and leaves every row, every table and every
\* file as it was.
C28_FailedRequestLeavesStore ==
    [][(SaveStep /\ ergast.data = <<>>) =>
          /\ store' = store
          /\ tables' = tables
          /\ files' = files
          /\ ergast'.conn = "none"
          /\ ergast'.saved = "nothing"]_vars

\* the request for the drivers has failed in a run that finds results of
\* an earlier run in the store; the save was skipped
C28_Witness ==
    /\ ergast.pc = "get_constructors"
    /\ ergast.data = <<>>
    /\ ergast.conn = "none"
    /\ race_results # {}

\* the records of a list, from the first to the last
Records(data) == {data[k] : k \in 1..Len(data)}

\* the rows of a table after the step
TableRowsAfter(table_name) ==
    CASE table_name = "circuits" -> circuits'
      [] table_name = "drivers" -> drivers'
      [] table_name = "constructors" -> constructors'
      [] table_name = "seasons" -> seasons'
      [] table_name = "races" -> races'
      [] table_name = "race_results" -> race_results'

\* C29: a save step of main with a list that is not empty leaves the table
\* as it was when SQLite rejects one of the records, and holds the row of
\* every record when it rejects none; either way the connection is closed
\* and main goes on (nothing is raised).
C29_BatchSavedAtomically ==
    [][(SaveStep /\ ergast.data # <<>>) =>
          LET t == SavedTable(ergast.pc)
          IN /\ ergast'.conn = "closed"
             /\ ergast'.saved \in {"all", "error"}
             /\ ergast'.pc = AfterSave(ergast).pc
             /\ IF \E x \in Records(ergast.data) : Rejected(t, x)
                THEN TableRowsAfter(t) = TableRows(t)
                ELSE \A x \in Records(ergast.data) :
                        StoredRow(t, x) \in TableRowsAfter(t)]_vars

\* the list of drivers whose first record SQLite takes and whose second one
\* it rejects has been saved: the table is empty as before
C29_Witness ==
    /\ ergast.pc = "get_constructors"
    /\ ergast.saved = "error"
    /\ Len(ergast.data) = 2
    /\ IsInteger(IntegerAffinity(ergast.data[1].driver_id))
    /\ drivers = {}

\* every seeded race has one row per seeded driver and no other row, the
\* positions of its rows are 1..N without a gap or a repetition, and every
\* row has the points of its position
Seeded ==
    \A race \in SampleRaces :
        LET rows == ResultsOfRace(race.race_id)
            N == Cardinality(DriverIds)
        IN /\ \A d \in DriverIds :
                 Cardinality({rr \in rows : rr.driver_id = d}) = 1
           /\ Cardinality(rows) = N
           /\ {rr.position : rr \in rows} = 1..N
           /\ Cardinality({rr \in rows : rr.position = 1}) = 1
           /\ \A rr \in rows :
                 /\ rr.position # NULL
                 /\ rr.points = points_system(rr.position)
                 /\ rr.constructor_id = driver_teams[rr.driver_id]

\* C30: every run of create_sample_data, the first one and every later one,
\* whatever the collector has saved in between, ends in a store where each
\* seeded race has one result per seeded driver, the positions of a race
\* are a permutation of 1..N, and each result has the points of its position.
C30_SeededRacesComplete ==
    [][SeedSampleData => Seeded']_vars

\* the script has run, and the collector has saved results as well
C30_Witness ==
    /\ Seeded
    /\ \E rr \in race_results : ~IsInteger(rr.race_id)
    /\ ergast.pc = "done"

(***************************************************************************)
(* FastF1Collector.save_enhanced_data(weekend_data).  A frame is empty, or  *)
(* holds one record under columns the table has ("fits"), or one record    *)
(* under a column the table has not, such as LapNumber ("misfit").  A row  *)
(* of an enhanced table is its generated id and the race_id of the record. *)
(***************************************************************************)
FrameKinds == {"empty", "fits", "misfit"}

\* the frames save_enhanced_data reads, in the order it reads them, and the
\* table of each
FrameKeys == <<"race_laps", "weather", "race_results">>
FrameTables == <<"enhanced_lap_times", "enhanced_weather", "enhanced_race_results">>

\* the weekend the collector has fetched: f"{year}_{round}"
WeekendRaceId == RaceText(2023, 1)

\* weekend_data: a frame under every key
WeekendData == [{FrameKeys[k] : k \in 1..Len(FrameKeys)} -> FrameKinds]

\* id INTEGER PRIMARY KEY AUTOINCREMENT
NextId(table) == Max({0} \cup {x.id : x \in table}) + 1

\* frame.to_sql(table, conn, if_exists='append', index=False): the record
\* of the frame becomes a new row
ToSql(table, race_id) == table \cup {[id |-> NextId(table), race_id |-> race_id]}

RECURSIVE SaveFrames(_, _, _, _)
\* the body of the try from the k-th frame on: CREATE TABLE IF NOT EXISTS
\* and to_sql for a frame that is not empty; to_sql commits, and raises
\* when the frame has a column the table has not, which ends the try
SaveFrames(rows, created, weekend_data, k) ==
    IF k > Len(FrameKeys)
    THEN [rows |-> rows, created |-> created, error |-> FALSE]
    ELSE LET frame == weekend_data[FrameKeys[k]]
             t == FrameTables[k]
         IN IF frame = "empty"
            THEN SaveFrames(rows, created, weekend_data, k + 1)
            ELSE IF frame = "fits"
            THEN SaveFrames([rows EXCEPT ![t] = ToSql(@, WeekendRaceId)],
                            created \cup {t}, weekend_data, k + 1)
            ELSE [rows |-> rows, created |-> created \cup {t}, error |-> TRUE]

\* save_enhanced_data(weekend_data) on the enhanced tables
SaveEnhanced(rows, weekend_data) == SaveFrames(rows, {}, weekend_data, 1)

\* save_enhanced_data(weekend_data): connect, the frames, close; the error
\* is printed
SaveEnhancedData(weekend_data) ==
    /\ ret = NoCall
    /\ \A t \in EnhancedTables : Cardinality(enhanced[t]) < MaxEnhancedRows
    /\ LET out == SaveEnhanced(enhanced, weekend_data)
       IN /\ enhanced' = out.rows
          /\ tables' = tables \cup out.created
    /\ files' = files \cup {ProjectDir}
    /\ UNCHANGED <<circuits, drivers, constructors, races, race_results,
                   qualifying_results, seasons, math_functions, ergast, engine, ret>>

\* no enhanced collection has run on the store
NoEnhancedCollection ==
    enhanced = NoEnhanced /\ tables \cap EnhancedTables = {}

\* the collectors and the seeding script on one store; the enhanced
\* collection runs while no Ergast collection has begun
NextCollectors ==
    \/ NoEnhancedCollection /\ ErgastStart
    \/ ErgastFetch
    \/ ErgastSave
    \/ SeedSampleData
    \/ ergast.pc = "idle" /\ \E weekend_data \in WeekendData : SaveEnhancedData(weekend_data)

SpecCollectors == Init /\ [][NextCollectors]_vars

(***************************************************************************)
(* Saving the same data once more                                          *)
(***************************************************************************)
\* the lists the collector can have fetched for a table
Batches(table_name) ==
    CASE table_name = "circuits" -> ApiCircuits
      [] table_name = "drivers" -> ApiDrivers
      [] table_name = "constructors" -> ApiConstructors
      [] table_name = "seasons" -> {GetSeasons}
      [] table_name = "races" -> {ApiRaces(y) : y \in Years}
      [] table_name = "race_results" ->
             UNION {ApiResults(r.year, r.round) : r \in RaceCatalog}

\* the rows of an enhanced table without the generated id: how many rows
\* there are of each content
Content(table) ==
    [c \in {x.race_id : x \in table} |->
        Cardinality({x \in table : x.race_id = c})]

\* save_to_database with a fetched list, run on the store, and run again
\* with the same list, leaves the table as the first run has left it
ErgastSaveIdempotent ==
    \A pc \in SavePcs :
        LET t == SavedTable(pc)
        IN \A data \in Batches(t) :
              LET once == SaveRows(t, TableRows(t), data)
                  twice == SaveRows(t, once.rows, data)
              IN twice.rows = once.rows

\* the seeding inserts with the same rows, run again, leave every table as
\* the first run has left it
SeedingIdempotent ==
    /\ \A shuffle \in Shuffles :
          LET once == SeedResults(race_results, shuffle)
          IN SeedResults(once, shuffle) = once
    /\ LET once == SaveAll(drivers, DriverCatalog, "drivers")
       IN SaveAll(once, DriverCatalog, "drivers") = once
    /\ LET once == SaveAll(races, SampleRaces, "races")
       IN SaveAll(once, SampleRaces, "races") = once

\* save_enhanced_data with the same weekend_data, run again, leaves every
\* enhanced table with the rows the first run has left, ids apart
EnhancedSaveIdempotent ==
    \A weekend_data \in WeekendData :
        LET once == SaveEnhanced(enhanced, weekend_data)
            twice == SaveEnhanced(once.rows, weekend_data)
        IN \A t \in EnhancedTables : Content(twice.rows[t]) = Content(once.rows[t])

\* C21 (as claimed): in every state of the store, a save step run twice
\* with the same data leaves every table with the rows (generated ids
\* apart) that one run leaves, for save_to_database, for the seeding
\* inserts and for save_enhanced_data.
C21_SavingTwiceSameAsOnce ==
    /\ ErgastSaveIdempotent
    /\ SeedingIdempotent
    /\ EnhancedSaveIdempotent

\* the part of C21 that holds: save_to_database and the seeding inserts
C21_InsertOrReplaceIdempotent ==
    ErgastSaveIdempotent /\ SeedingIdempotent
====
